---- MODULE Spec2Model ----
(***************************************************************************)
(* Fluxion store core (createStore): state held by reference in a heap of  *)
(* JavaScript objects, the listener Set, the middleware list, and the call *)
(* stack of setState invocations (a listener may call back into the store  *)
(* while a notification pass is running).  Further specifications cover    *)
(* destroy() (SpecDestroy), the throttle and debounce middlewares on a     *)
(* clock (SpecTimer), the createSelector, derived and combined selectors   *)
(* (SpecSelect), slices (SpecSlice), the snapshot manager (SpecSnapshot),  *)
(* and a middleware that calls its dispatch argument (SpecDispatch).       *)
(***************************************************************************)
EXTENDS Integers, Sequences, FiniteSets, TLC

\* ------------------------------------------------------------------ bounds
MaxDepth   == 2    \* setState frames on the call stack (nesting from listeners)
MaxReentry == 1    \* calls back into the store made by listeners during one top-level setState
MaxSubs    == 2    \* subscribe calls per behaviour
MaxCount   == 1    \* largest value of the count field
MaxItems   == 1    \* largest length of the items array

ListenerIds == {"L1", "L2"}
Empty == "empty"   \* a deleted entry of the Set's data list

\* ------------------------------------------------------------------ values
Num(n) == <<"num", n>>
Str(n) == <<"str", n>>
Ref(a) == <<"ref", a>>
Fn(n)  == <<"fn", n>>
IsRef(v) == v[1] = "ref"

NoProps == [k \in {} |-> Num(0)]
Cell(p, e) == [props |-> p, elems |-> e]

\* { ...a, ...b }
Spread(a, b) == [k \in (DOMAIN a) \cup (DOMAIN b) |-> IF k \in DOMAIN b THEN b[k] ELSE a[k]]

\* the initial state of the tests: { count: 0, name: 'test', items: [] } plus a method
ItemsAddr0 == 1
StateAddr0 == 2
InitialProps ==
  [k \in {"count", "name", "items", "increment"} |->
     CASE k = "count" -> Num(0)
       [] k = "name" -> Str(1)
       [] k = "items" -> Ref(ItemsAddr0)
       [] OTHER -> Fn(1)]

InitialDeep == [k \in DOMAIN InitialProps |-> IF k = "items" THEN <<"arr", <<>>>> ELSE InitialProps[k]]

\* structural content of the object at address a (one level of nesting)
Deep(h, a) ==
  [k \in DOMAIN h[a].props |->
     IF IsRef(h[a].props[k]) THEN <<"arr", h[h[a].props[k][2]].elems>>
     ELSE h[a].props[k]]

VARIABLES
  heap,        \* the JavaScript heap: a sequence of cells, an address is an index
  state,       \* createStore's `state`: address of the current state object
  listeners,   \* createStore's `listeners`: the Set's data list, in insertion order
  subs,        \* Subscription objects handed out: subs[k] is the listener the k-th disposer closes over
  middleware,  \* createStore's `middleware` option
  stack,       \* setState invocations in progress, innermost last
  calls,       \* the setState calls begun since the current top-level call began
  mwlog,       \* the middleware invocations of those calls, in time order
  notified,    \* the listener invocations of those calls, in time order
  thrown,      \* what the last top-level setState threw ("none" when it returned)
  disposed,    \* the Subscriptions whose unsubscribe() has been called
  held,        \* getState() as read before the last top-level setState, and a deep copy of it
  destroyed    \* whether destroy() has been called, and the Subscriptions that existed at
               \* the last call

storeVars == <<heap, state, listeners, subs, middleware, stack, calls, mwlog, notified,
               thrown, disposed, held, destroyed>>

\* a store whose one middleware is a throttle or a debounce, with one listener, on a clock
VARIABLES
  tkind,       \* which middleware the store was created with ("none": no timing middleware)
  clock,       \* time since the store was created, in units of 10 ms
  tstate,      \* the count field of the store's `state`
  closure,     \* the middleware's closure: lastUpdate, pendingState, timeoutId, ...
  timers,      \* the setTimeout callbacks not yet run: their ids and due times
  nextId,      \* the id the next setTimeout returns
  tlog,        \* the setState calls completed, in time order
  heard        \* how many times the listener has been called

timerVars == <<tkind, clock, tstate, closure, timers, nextId, tlog, heard>>

\* a store read through a createSelector selector and a derived selector
VARIABLES
  sstate,      \* the store's state object: its identity and its fields a, other, filter
  csel,        \* createSelector's closure: lastState, lastResult, lastDeps, and options.deps
  dsel,        \* derived's closure: lastResult, lastDepsValues, and which compute it has
  dirty,       \* the fields setState has changed since the createSelector selector's last call
  msel,        \* the closure of the selector createCombinedSelector made, and the
               \* sub-selector outputs its last completed computation saw
  slast        \* the last selector call: which, what it returned or threw, whether it
               \* called the wrapped function, the cache it found, and the fields changed
               \* since the call before

selVars == <<sstate, csel, dsel, dirty, msel, slast>>

\* a store { users: { list, filter, page: { n, size } }, count } written through slices
VARIABLES
  lstate,      \* the store's state
  lslices,     \* the slice handles created: <<"users">>, <<"users", "page">>
  llast        \* the last operation: which, on which path, with which updater, the state
               \* before it, how many setState calls and listener calls it made, what it threw

sliceVars == <<lstate, lslices, llast>>

\* a store { count, extra? } with two listeners and a snapshot manager
VARIABLES
  nstate,       \* the store's state
  nopts,        \* createSnapshotManager's options: maxSnapshots, autoSnapshot
  snapshots,    \* the manager's `snapshots`; entry index i of the code is snapshots[i + 1]
  currentIndex, \* the manager's `currentIndex`, counted from 0 as in the code
  taken,        \* how many Snapshot objects have been made: the next one is number taken + 1
  scen,         \* how far the calls so far follow takeSnapshot, update, takeSnapshot,
                \* undo, redo, and the states the two takeSnapshot calls captured
  nlast         \* the last operation: which, its argument, the cursor, state and (for
                \* applySnapshot, undo, redo) sequence before it, the snapshots that
                \* were after the cursor, those it evicted, the listener calls it
                \* made, what it threw, and whether an undo() is still to be redone

snapVars == <<nstate, nopts, snapshots, currentIndex, taken, scen, nlast>>

\* a snapshot manager on the store core: the Snapshot objects live in the store's heap
VARIABLES
  shots,        \* the manager's `snapshots`: for each the address of its state object, and
                \* the content the store state had when it was taken (<<>>: no manager yet)
  cursor        \* the manager's `currentIndex`, counted from 0

captureVars == <<shots, cursor>>

\* a store { loading, errors } written by the actions createAsyncAction(store.setState)
\* starts
VARIABLES
  astate,       \* the store's state: loading and errors, by action name
  acts          \* the asyncAction calls made, in time order: the actionName, where the promise
                \* chain stands, how the action's promise settled, whether onSuccess throws,
                \* how the returned promise settled, and the state when it did

asyncVars == <<astate, acts>>

vars == <<storeVars, timerVars, selVars, sliceVars, snapVars, captureVars, asyncVars>>

\* the parts of the model an operation of the store core does not touch
Elsewhere == UNCHANGED <<timerVars, selVars, sliceVars, snapVars, captureVars, asyncVars>>

\* ------------------------------------------------------------------ updates
Upd(kind, obj, mut, ret) == [kind |-> kind, obj |-> obj, mut |-> mut, ret |-> ret]

Partials ==
  {[k \in {"count"} |-> Num(c)] : c \in 1..MaxCount}
    \cup {[k \in {"name"} |-> Str(2)]}
    \cup {[k \in {"count", "name"} |-> IF k = "count" THEN Num(0) ELSE Str(1)]}

\* recipes: mut is  s => { s.count += 1; s.items.push(x) },  ret is  s => ({ count: s.count + 1 })
\* or, with obj.returned an object that exists already,  () => returned
Recipes == {Upd("fn", NoProps, m, r) : m \in BOOLEAN, r \in BOOLEAN}

\* what a caller may pass that is neither a function nor an object
Invalid == {Upd(k, NoProps, FALSE, FALSE) : k \in {"null", "undefined", "number"}}

Updates == {Upd("partial", p, FALSE, FALSE) : p \in Partials} \cup Recipes \cup Invalid

\* what the listeners of the model pass when they call setState themselves
ListenerUpdates ==
  {Upd("partial", [k \in {"count"} |-> Num(MaxCount)], FALSE, FALSE), Upd("fn", NoProps, TRUE, TRUE)}

\* the own enumerable properties object spread copies out of a non-function updater
OwnProps(u) == IF u.kind = "partial" THEN u.obj ELSE NoProps

Count(h, a) == h[a].props["count"][2]

\* a recipe that would push past the bounds of the model is not offered
Offered(h, s, u) ==
  /\ "count" \in DOMAIN h[s].props
  /\ (u.kind = "fn" /\ (u.mut \/ u.ret)) => Count(h, s) < MaxCount
  /\ (u.kind = "fn" /\ u.mut /\ "items" \in DOMAIN h[s].props)
        => Len(h[h[s].props["items"][2]].elems) < MaxItems

Outcome(e, h, a) == [err |-> e, heap |-> h, next |-> a]

\* Produce with the recipe run on the state object itself instead of a draft
ProduceInPlace(h, s, u) ==
  IF u.mut /\ ~u.ret /\ "items" \in DOMAIN h[s].props
    THEN LET arr == h[s].props["items"][2]
         IN Outcome("none",
                    [h EXCEPT ![arr].elems = Append(@, 1),
                              ![s].props["count"] = Num(@[2] + 1)],
                    s)
    ELSE Outcome("none", h, s)

\* immer: produce(state, draft => updater(draft))
Produce(h, s, u) ==
  LET base == h[s].props
      a == Len(h) + 1
  IN IF u.mut /\ "items" \notin DOMAIN base
       THEN Outcome("TypeError", h, s)
     ELSE IF u.mut /\ u.ret
       THEN Outcome("ImmerError", h, s)
     ELSE IF u.ret /\ "returned" \in DOMAIN u.obj
       THEN Outcome("none", h, u.obj["returned"][2])
     ELSE IF u.ret
       THEN Outcome("none",
                    Append(h, Cell([k \in {"count"} |-> Num(base["count"][2] + 1)], <<>>)),
                    a)
     ELSE IF u.mut
       THEN LET arr == h[base["items"][2]].elems
                obj == [k \in DOMAIN base |->
                          CASE k = "count" -> Num(base["count"][2] + 1)
                            [] k = "items" -> Ref(a)
                            [] OTHER -> base[k]]
            IN Outcome("none", h \o <<Cell(NoProps, Append(arr, 1)), Cell(obj, <<>>)>>, a + 1)
     ELSE Outcome("none", h, s)

\* MergePartial done in place: Object.assign(state, updater)
MergeAssign(h, s, u) == Outcome("none", [h EXCEPT ![s].props = Spread(@, OwnProps(u))], s)

\* MergePartial with the updater taken as the whole next state
MergeReplace(h, s, u) == Outcome("none", Append(h, Cell(OwnProps(u), <<>>)), Len(h) + 1)

\* nextState = { ...state, ...updater }
MergePartial(h, s, u) ==
  Outcome("none", Append(h, Cell(Spread(h[s].props, OwnProps(u)), <<>>)), Len(h) + 1)

\* setState, lines 57-66: the candidate next state
Engine(h, s, u) == IF u.kind = "fn" THEN Produce(h, s, u) ELSE MergePartial(h, s, u)

\* ------------------------------------------------------------------ middleware
\* pass: returns nextState (the logger); void: returns nothing; revert: returns prevState
\* (how throttle and debounce cancel an update); stamp: returns a changed copy of
\* nextState; throw: throws
MwKinds == {"pass", "void", "revert", "stamp", "throw"}
Undefined == <<"undefined", 0>>

\* the middleware options stores are created with
MwConfigs ==
  {<<>>, <<"void", "stamp">>, <<"stamp", "revert">>, <<"pass", "throw", "stamp">>}

MwOutcome(e, h, v) == [err |-> e, heap |-> h, out |-> v]

\* middlewareFn(result, prevState, setState)
MwApply(k, h, next, prev) ==
  CASE k = "pass" -> MwOutcome("none", h, Ref(next))
    [] k = "void" -> MwOutcome("none", h, Undefined)
    [] k = "revert" -> MwOutcome("none", h, Ref(prev))
    [] k = "stamp" ->
         MwOutcome("none",
                   Append(h, Cell(Spread(h[next].props, [f \in {"name"} |-> Str(3)]), <<>>)),
                   Ref(Len(h) + 1))
    [] OTHER -> MwOutcome("MiddlewareError", h, Undefined)

\* Fold with a middleware that returns nothing taken as a revert to prevState
FoldRevert(result, prev, out) == IF out # Undefined THEN out[2] ELSE prev

\* applyMiddleware, lines 44-46: what `result` is after one middleware returned out
Fold(result, prev, out) == IF out # Undefined THEN out[2] ELSE result

\* ------------------------------------------------------------------ the listener Set
Live(ls) == SelectSeq(ls, LAMBDA x : x # Empty)
Has(ls, l) == \E i \in 1..Len(ls) : ls[i] = l

\* SetClear leaving every entry in place
SetClearNone(ls) == ls

\* Set.prototype.clear: every entry is emptied in place, so a running forEach finds nothing more
SetClear(ls) == [i \in 1..Len(ls) |-> Empty]

\* Set.prototype.add: appends unless the value is already in the Set
SetAdd(ls, l) == IF Has(ls, l) THEN ls ELSE Append(ls, l)

\* SetDelete taking effect only between notification passes: a pass in progress keeps
\* the entry (delete applied to a copy of the list the pass iterates)
SetDeleteDeferred(ls, l) ==
  IF stack = <<>> THEN [i \in 1..Len(ls) |-> IF ls[i] = l THEN "empty" ELSE ls[i]] ELSE ls

\* Set.prototype.delete: the entry is emptied in place, so a running forEach skips it
SetDelete(ls, l) == [i \in 1..Len(ls) |-> IF ls[i] = l THEN Empty ELSE ls[i]]

\* Listener functions are interchangeable: the model names them in the order in which
\* they are first subscribed, so l can be subscribed once every name before it has been.
ListenerOrder == <<"L1", "L2">>
Pos(l) == CHOOSE i \in DOMAIN ListenerOrder : ListenerOrder[i] = l
Nameable(l) ==
  \A o \in ListenerIds : Pos(o) < Pos(l) => \E k \in DOMAIN subs : subs[k] = o

\* ------------------------------------------------------------------ setState
Frame(id, pc, prev, res, i) == [id |-> id, pc |-> pc, prev |-> prev, res |-> res, i |-> i]
\* one setState call: its updater, `state` when it began, its prevState copy, the engine's
\* candidate, the state it committed (0 while it has not), the listeners subscribed when
\* it committed, and what it threw
CallRec(u, before, prev, cand, next, at, err) ==
  [upd |-> u, before |-> before, prev |-> prev, cand |-> cand, next |-> next,
   subsAt |-> at, err |-> err]

Idle == stack = <<>>
Top == stack[Len(stack)]
Rest == SubSeq(stack, 1, Len(stack) - 1)

\* Addresses are names within one top-level operation and the idle time after it: before
\* the next one the garbage is collected and the state object and its array are renamed
\* to the addresses they had at construction.
Collect(h, s) ==
  IF "items" \in DOMAIN h[s].props
    THEN <<h[h[s].props["items"][2]],
           Cell([h[s].props EXCEPT !["items"] = Ref(ItemsAddr0)], <<>>)>>
    ELSE <<Cell(NoProps, <<>>), h[s]>>

\* the reentrant calls listeners have made since the top-level setState began
Reentries(n) == Len(SelectSeq(n, LAMBDA e : e.did \in {"unsub", "sub", "setState", "destroy"}))

\* an exception nobody catches: every frame is abandoned and the top-level caller sees it
Raise(e) ==
  /\ stack' = <<>>
  /\ thrown' = e

\* setState(updater) invoked in heap h with `state` at s, `stk` the stack of its caller
\* and `cs` the calls so far: lines 54-77 up to the first listener when there is no
\* middleware, lines 54-70 up to the first middleware otherwise
Invoke(u, h, s, stk, cs) ==
  LET p == Len(h) + 1
      h1 == Append(h, Cell(h[s].props, <<>>))
      r == Engine(h1, s, u)
      id == Len(cs) + 1
  IN IF r.err # "none"
       THEN /\ Raise(r.err)
            /\ heap' = h1
            /\ state' = s
            /\ calls' = Append(cs, CallRec(u, s, p, 0, 0, <<>>, r.err))
     ELSE IF middleware = <<>>
       THEN /\ heap' = r.heap
            /\ state' = r.next
            /\ stack' = Append(stk, Frame(id, "notify", p, r.next, 1))
            /\ calls' = Append(cs, CallRec(u, s, p, r.next, r.next, Live(listeners), "none"))
            /\ thrown' = "none"
     ELSE /\ heap' = r.heap
          /\ state' = s
          /\ stack' = Append(stk, Frame(id, "mw", p, r.next, 1))
          /\ calls' = Append(cs, CallRec(u, s, p, r.next, 0, <<>>, "none"))
          /\ thrown' = "none"

\* store.setState(u) called from outside the store
SetState(u) ==
  /\ Idle
  /\ Offered(heap, state, u)
  /\ mwlog' = <<>>
  /\ notified' = <<>>
  /\ listeners' = Live(listeners)
  /\ held' = [ref |-> StateAddr0, copy |-> Deep(heap, state)]
  /\ Invoke(u, Collect(heap, state), StateAddr0, <<>>, <<>>)
  /\ UNCHANGED <<subs, middleware, disposed, destroyed>>
  /\ Elsewhere

\* MwThrows with the exception caught and the loop carried on
MwThrowsContained(f, e) ==
  IF f.i < Len(middleware)
    THEN /\ stack' = Append(Rest, Frame(f.id, "mw", f.prev, f.res, f.i + 1))
         /\ UNCHANGED <<state, calls, thrown>>
    ELSE /\ state' = f.res
         /\ stack' = Append(Rest, Frame(f.id, "notify", f.prev, f.res, 1))
         /\ calls' = [calls EXCEPT ![f.id].next = f.res, ![f.id].subsAt = Live(listeners)]
         /\ UNCHANGED thrown

\* a middleware of the invocation in frame f throws e: applyMiddleware and setState have
\* no try/catch, line 74 is not reached
MwThrows(f, e) ==
  /\ Raise(e)
  /\ calls' = [calls EXCEPT ![f.id].err = e]
  /\ UNCHANGED state

\* one iteration of applyMiddleware's loop, and after the last one lines 74-76
MwStep ==
  /\ ~Idle
  /\ Top.pc = "mw"
  /\ middleware[Top.i] \in MwKinds
  /\ LET f == Top
         o == MwApply(middleware[f.i], heap, f.res, f.prev)
         res == Fold(f.res, f.prev, o.out)
         entry == [id |-> f.id, i |-> f.i, next |-> f.res, prev |-> f.prev,
                   out |-> IF o.err = "none" THEN o.out ELSE <<"threw", 0>>]
     IN /\ mwlog' = Append(mwlog, entry)
        /\ heap' = o.heap
        /\ IF o.err # "none"
             THEN MwThrows(f, o.err)
           ELSE IF f.i < Len(middleware)
             THEN /\ stack' = Append(Rest, Frame(f.id, "mw", f.prev, res, f.i + 1))
                  /\ UNCHANGED <<state, calls, thrown>>
           ELSE /\ state' = res
                /\ stack' = Append(Rest, Frame(f.id, "notify", f.prev, res, 1))
                /\ calls' = [calls EXCEPT ![f.id].next = res, ![f.id].subsAt = Live(listeners)]
                /\ UNCHANGED thrown
  /\ UNCHANGED <<listeners, subs, middleware, notified, disposed, held, destroyed>>
  /\ Elsewhere

\* a middleware that uses its third argument: (nextState, prevState, dispatch) =>
\* { if (nextState.count !== prevState.count) dispatch({ name: 'changed' }); return nextState }
DispatchPayload == Upd("partial", [k \in {"name"} |-> Str(4)], FALSE, FALSE)
Dispatches(h, next, prev) == h[next].props["count"] # h[prev].props["count"]
DispatchConfigs == {<<"dispatch">>, <<"dispatch", "stamp">>, <<"pass", "dispatch">>}

\* applyMiddleware, lines 44-46, and after the last middleware lines 74-76, once the
\* middleware of frame f has returned res
MwReturned(f, res) ==
  IF f.i < Len(middleware)
    THEN /\ stack' = Append(Rest, Frame(f.id, "mw", f.prev, res, f.i + 1))
         /\ UNCHANGED <<state, calls, thrown>>
    ELSE /\ state' = res
         /\ stack' = Append(Rest, Frame(f.id, "notify", f.prev, res, 1))
         /\ calls' = [calls EXCEPT ![f.id].next = res, ![f.id].subsAt = Live(listeners)]
         /\ UNCHANGED thrown

\* the dispatching middleware is invoked (line 43): the dispatch it is handed is setState
\* itself, so its call is a setState invocation begun inside applyMiddleware, with the
\* invocation in flight waiting on the stack
MwDispatches ==
  /\ ~Idle
  /\ Top.pc = "mw"
  /\ middleware[Top.i] = "dispatch"
  /\ LET f == Top
     IN /\ mwlog' = Append(mwlog, [id |-> f.id, i |-> f.i, next |-> f.res, prev |-> f.prev,
                                   out |-> Ref(f.res)])
        /\ IF Dispatches(heap, f.res, f.prev)
             THEN Invoke(DispatchPayload, heap, state,
                         Append(Rest, Frame(f.id, "resume", f.prev, f.res, f.i)), calls)
             ELSE /\ heap' = heap
                  /\ MwReturned(f, f.res)
  /\ UNCHANGED <<listeners, subs, middleware, notified, disposed, held, destroyed>>
  /\ Elsewhere

\* the dispatched setState has returned: the middleware returns nextState
MwResume ==
  /\ ~Idle
  /\ Top.pc = "resume"
  /\ MwReturned(Top, Top.res)
  /\ UNCHANGED <<heap, listeners, subs, middleware, mwlog, notified, disposed, held, destroyed>>
  /\ Elsewhere

\* combineMiddleware(...middlewares) of middleware/index.ts: the stores of the model are
\* given combineMiddleware(m1, ..., mn) for each of the lists of MwConfigs
Combinations ==
  [combine0 |-> <<>>, combine1 |-> <<"void", "stamp">>, combine2 |-> <<"stamp", "revert">>,
   combine3 |-> <<"pass", "throw", "stamp">>]

\* what a pass over middlewares gives: what was thrown, the heap, the resulting state and
\* the invocations made
Passed(e, h, res, log) == [err |-> e, heap |-> h, res |-> res, log |-> log]
Invoked(k, next, prev) == [kind |-> k, next |-> next, prev |-> prev]

\* PrevFor with each middleware given the running result as its prevState
PrevChained(st, prev) == st

\* index.ts line 39: the prevState argument of every middleware of the list is the
\* prevState the combined middleware received
PrevFor(st, prev) == prev

\* index.ts line 40: result !== undefined ? result : state
Kept(st, out) == IF out # Undefined THEN out[2] ELSE st

\* middlewares.reduce(..., nextState), index.ts lines 37-43, from the j-th middleware on
RECURSIVE Reduce(_, _, _, _, _, _)
Reduce(ms, j, h, st, prev, log) ==
  IF j > Len(ms) THEN Passed("none", h, st, log)
  ELSE LET o == MwApply(ms[j], h, st, PrevFor(st, prev))
           seen == Append(log, Invoked(ms[j], st, PrevFor(st, prev)))
       IN IF o.err # "none" THEN Passed(o.err, o.heap, st, seen)
          ELSE Reduce(ms, j + 1, o.heap, Kept(st, o.out), prev, seen)

\* applyMiddleware(nextState, prevState) of a store whose middleware list is ms, lines
\* 39-50, from the j-th middleware on
RECURSIVE ApplyMiddleware(_, _, _, _, _, _)
ApplyMiddleware(ms, j, h, result, prev, log) ==
  IF j > Len(ms) THEN Passed("none", h, result, log)
  ELSE LET o == MwApply(ms[j], h, result, prev)
           seen == Append(log, Invoked(ms[j], result, prev))
       IN IF o.err # "none" THEN Passed(o.err, o.heap, result, seen)
          ELSE ApplyMiddleware(ms, j + 1, o.heap, Fold(result, prev, o.out), prev, seen)

\* one iteration of applyMiddleware's loop when the middleware is a combined one, and
\* after the last one lines 74-76
MwCombined ==
  /\ ~Idle
  /\ Top.pc = "mw"
  /\ middleware[Top.i] \in DOMAIN Combinations
  /\ LET f == Top
         c == Reduce(Combinations[middleware[f.i]], 1, heap, f.res, f.prev, <<>>)
     IN /\ mwlog' = Append(mwlog, [id |-> f.id, i |-> f.i, next |-> f.res, prev |-> f.prev,
                                   out |-> IF c.err = "none" THEN Ref(c.res) ELSE <<"threw", 0>>])
        /\ heap' = c.heap
        /\ IF c.err # "none"
             THEN MwThrows(f, c.err)
             ELSE MwReturned(f, Fold(f.res, f.prev, Ref(c.res)))
  /\ UNCHANGED <<listeners, subs, middleware, notified, disposed, held, destroyed>>
  /\ Elsewhere

\* createPersistMiddleware(key, options) of middleware/persist.ts. Without a storage
\* adapter it returns  nextState => nextState  ("persistOff"); with one it returns an
\* async function ("persist"), and a call of an async function returns a new Promise
\* whatever its body does later
PersistKinds == {"persist", "persistOff"}
PersistConfigs == {<<"persist">>, <<"persistOff">>, <<"pass", "persist">>}

\* a Promise as the store sees it: an object without own enumerable properties
PromiseCell == Cell(NoProps, <<>>)

\* the returned middleware called with nextState
PersistApply(k, h, next) ==
  IF k = "persistOff" THEN MwOutcome("none", h, Ref(next))
  ELSE MwOutcome("none", Append(h, PromiseCell), Ref(Len(h) + 1))

\* one iteration of applyMiddleware's loop when the middleware is the persist
\* middleware, and after the last one lines 74-76
MwPersists ==
  /\ ~Idle
  /\ Top.pc = "mw"
  /\ middleware[Top.i] \in PersistKinds
  /\ LET f == Top
         o == PersistApply(middleware[f.i], heap, f.res)
     IN /\ mwlog' = Append(mwlog, [id |-> f.id, i |-> f.i, next |-> f.res, prev |-> f.prev,
                                   out |-> o.out])
        /\ heap' = o.heap
        /\ MwReturned(f, Fold(f.res, f.prev, o.out))
  /\ UNCHANGED <<listeners, subs, middleware, notified, disposed, held, destroyed>>
  /\ Elsewhere

\* ------------------------------------------------------------------ notification
\* listeners.forEach(listener => listener(state, prevState)), line 77: the pass of the
\* innermost setState is at entry Top.i of the Set's data list
Notifying == ~Idle /\ Top.pc = "notify"
AtListener == Notifying /\ Top.i <= Len(listeners) /\ listeners[Top.i] # Empty

\* the frame once the listener at Top.i has been called
Advanced == Append(Rest, Frame(Top.id, "notify", Top.prev, Top.res, Top.i + 1))

\* the call listener(state, prevState) itself, what the listener then did and, when it
\* subscribed or unsubscribed, which listener ("" otherwise)
Called(did, arg) ==
  Append(notified, [id |-> Top.id, l |-> listeners[Top.i], next |-> state, prev |-> Top.prev,
                    did |-> did, arg |-> arg])

\* forEach is past the last entry: setState returns to its caller (lines 79-86 do nothing
\* without devtools)
NotifyReturn ==
  /\ Notifying
  /\ Top.i > Len(listeners)
  /\ stack' = Rest
  /\ UNCHANGED <<heap, state, listeners, subs, middleware, calls, mwlog, notified,
                 thrown, disposed, held, destroyed>>
  /\ Elsewhere

\* forEach steps over an entry deleted since the pass began
NotifySkip ==
  /\ Notifying
  /\ Top.i <= Len(listeners)
  /\ listeners[Top.i] = Empty
  /\ stack' = Advanced
  /\ UNCHANGED <<heap, state, listeners, subs, middleware, calls, mwlog, notified,
                 thrown, disposed, held, destroyed>>
  /\ Elsewhere

\* the listener runs and returns
ListenerReturns ==
  /\ AtListener
  /\ notified' = Called("return", "")
  /\ stack' = Advanced
  /\ UNCHANGED <<heap, state, listeners, subs, middleware, calls, mwlog, thrown, disposed, held, destroyed>>
  /\ Elsewhere

\* the listener throws: forEach and setState have no try/catch
ListenerThrows ==
  /\ AtListener
  /\ notified' = Called("throw", "")
  /\ Raise("ListenerError")
  /\ UNCHANGED <<heap, state, listeners, subs, middleware, calls, mwlog, disposed, held, destroyed>>
  /\ Elsewhere

\* the listener calls the disposer of subscription k and returns
ListenerUnsubscribes(k) ==
  /\ AtListener
  /\ Reentries(notified) < MaxReentry
  /\ notified' = Called("unsub", subs[k])
  /\ listeners' = SetDelete(listeners, subs[k])
  /\ disposed' = disposed \cup {k}
  /\ stack' = Advanced
  /\ UNCHANGED <<heap, state, subs, middleware, calls, mwlog, thrown, held, destroyed>>
  /\ Elsewhere

\* the listener subscribes l and returns
ListenerSubscribes(l) ==
  /\ AtListener
  /\ Reentries(notified) < MaxReentry
  /\ Len(subs) < MaxSubs
  /\ Nameable(l)
  /\ notified' = Called("sub", l)
  /\ listeners' = SetAdd(listeners, l)
  /\ subs' = Append(subs, l)
  /\ stack' = Advanced
  /\ UNCHANGED <<heap, state, middleware, calls, mwlog, thrown, disposed, held, destroyed>>
  /\ Elsewhere

\* the listener calls store.setState(u): a nested invocation
ListenerSetsState(u) ==
  /\ AtListener
  /\ Reentries(notified) < MaxReentry
  /\ Len(stack) < MaxDepth
  /\ Offered(heap, state, u)
  /\ notified' = Called("setState", "")
  /\ Invoke(u, heap, state, Advanced, calls)
  /\ UNCHANGED <<listeners, subs, middleware, mwlog, disposed, held, destroyed>>
  /\ Elsewhere

\* ------------------------------------------------------------------ subscribe
\* what every top-level operation other than setState leaves of the last setState
Settled ==
  /\ heap' = Collect(heap, state)
  /\ state' = StateAddr0
  /\ calls' = <<>>
  /\ mwlog' = <<>>
  /\ notified' = <<>>
  /\ thrown' = "none"
  /\ held' = [ref |-> StateAddr0, copy |-> Deep(heap, state)]

\* store.subscribe(l), lines 89-97
Subscribe(l) ==
  /\ Idle
  /\ Len(subs) < MaxSubs
  /\ Nameable(l)
  /\ listeners' = SetAdd(Live(listeners), l)
  /\ subs' = Append(subs, l)
  /\ Settled
  /\ UNCHANGED <<middleware, stack, disposed, destroyed>>
  /\ Elsewhere

\* subscription.unsubscribe() of the k-th Subscription, lines 93-95
Unsubscribe(k) ==
  /\ Idle
  /\ listeners' = Live(SetDelete(listeners, subs[k]))
  /\ disposed' = disposed \cup {k}
  /\ Settled
  /\ UNCHANGED <<subs, middleware, stack, destroyed>>
  /\ Elsewhere

\* ------------------------------------------------------------------ destroy
\* what destroy() leaves on record: the store has no destroyed flag of its own
Destroying == [on |-> TRUE, released |-> DOMAIN subs]

\* store.destroy() called from outside the store, lines 105-107
Destroy ==
  /\ Idle
  /\ listeners' = Live(SetClear(listeners))
  /\ destroyed' = Destroying
  /\ Settled
  /\ UNCHANGED <<subs, middleware, stack, disposed>>
  /\ Elsewhere

\* the listener calls store.destroy() and returns
ListenerDestroys ==
  /\ AtListener
  /\ Reentries(notified) < MaxReentry
  /\ notified' = Called("destroy", "")
  /\ listeners' = SetClear(listeners)
  /\ destroyed' = Destroying
  /\ stack' = Advanced
  /\ UNCHANGED <<heap, state, subs, middleware, calls, mwlog, thrown, disposed, held>>
  /\ Elsewhere

\* ------------------------------------------------------------------ throttle, debounce
MaxCalls == 3      \* setState calls made from outside per behaviour
MaxClock == 22     \* the clock stops here (units of 10 ms)
Window == 10       \* createThrottleMiddleware(100): ms, in units of 10 ms

\* Date.now() when the store is created is an epoch time, more than ms after time 0
Epoch == Window
Now == Epoch + clock

Null == <<"null", 0>>
St(n) == <<"state", n>>

\* the three middlewares: createThrottleMiddleware(ms) of middleware.ts, and
\* createThrottleMiddleware(ms) and createDebounceMiddleware(ms) of middleware/basic.ts
\* with their default options (leading and trailing throttle; trailing-only debounce)
TimerKinds == {"legacy", "throttle", "debounce"}
ThrottleLeading == TRUE
ThrottleTrailing == TRUE
DebounceLeading == FALSE

\* lastUpdate = 0 (lastInvokeTime for debounce), pendingState = null, timeoutId = null
\* (written 0: setTimeout ids start at 1), lastCallTime = 0
Closure0 == [lastUpdate |-> 0, pending |-> Null, timeoutId |-> 0, lastCallTime |-> 0]

Timer(id, due) == [id |-> id, due |-> due]
Max(a, b) == IF a >= b THEN a ELSE b

\* what one middleware invocation leaves: the closure, the timers, the next timer id and
\* the state it returns
MwRet(c, T, n, result) == [c |-> c, timers |-> T, nextId |-> n, result |-> result]

\* clearTimeout(timeoutId) when timeoutId !== null
Cleared(c, T) == IF c.timeoutId # 0 THEN {t \in T : t.id # c.timeoutId} ELSE T

\* middleware.ts: the returned middleware of createThrottleMiddleware
LegacyThrottle(c, T, n, now, next, prev) ==
  IF now - c.lastUpdate >= Window
    THEN MwRet([c EXCEPT !.lastUpdate = now], T, n, next)
    ELSE MwRet([c EXCEPT !.pending = St(next)],
               T \cup {Timer(n, now + (Window - (now - c.lastUpdate)))}, n + 1, prev)

\* middleware/basic.ts: the returned middleware of createThrottleMiddleware
BasicThrottle(c, T, n, now, next, prev) ==
  LET elapsed == now - c.lastUpdate
      T1 == Cleared(c, T)
      c1 == [c EXCEPT !.timeoutId = 0]
  IN IF elapsed >= Window /\ ThrottleLeading
       THEN MwRet([c1 EXCEPT !.lastUpdate = now], T1, n, next)
     ELSE IF ThrottleTrailing
       THEN MwRet([c1 EXCEPT !.pending = St(next), !.timeoutId = n],
                  T1 \cup {Timer(n, now + Max(0, Window - elapsed))}, n + 1, prev)
     ELSE MwRet(c1, T1, n, prev)

\* middleware/basic.ts: the returned middleware of createDebounceMiddleware (maxWait is
\* undefined); lastUpdate stands for lastInvokeTime
Debounce(c, T, n, now, next, prev) ==
  LET T1 == Cleared(c, T)
      c1 == [c EXCEPT !.lastCallTime = now, !.timeoutId = 0]
      shouldInvoke == DebounceLeading /\ (c.lastUpdate = 0 \/ now - c.lastUpdate >= Window)
  IN IF shouldInvoke
       THEN MwRet([c1 EXCEPT !.lastUpdate = now], T1, n, next)
       ELSE MwRet([c1 EXCEPT !.pending = St(next), !.timeoutId = n],
                  T1 \cup {Timer(n, now + Window)}, n + 1, prev)

\* applyMiddleware with the store's one middleware
Through(c, T, n, now, next, prev) ==
  CASE tkind = "legacy" -> LegacyThrottle(c, T, n, now, next, prev)
    [] tkind = "throttle" -> BasicThrottle(c, T, n, now, next, prev)
    [] OTHER -> Debounce(c, T, n, now, next, prev)

\* one completed setState call: who called, when, the state the engine offered the
\* middleware, whether the throttle window was open (less than ms since lastUpdate), the
\* state before, the state committed, the listener's call count before and after
Done(by, offered, inside, r) ==
  [by |-> by, at |-> clock, offered |-> offered, inside |-> inside, before |-> tstate,
   committed |-> r.result, heard0 |-> heard, heard1 |-> heard + 1]

\* setState run to completion with the closure as c: the engine's next state is `next`,
\* the middleware's result is committed (line 74) and the listener is called (line 77)
Complete(by, c, T, next) ==
  LET r == Through(c, T, nextId, Now, next, tstate)
  IN /\ tstate' = r.result
     /\ heard' = heard + 1
     /\ timers' = r.timers
     /\ nextId' = r.nextId
     /\ tlog' = Append(tlog, Done(by, next, Now - c.lastUpdate < Window, r))
     /\ closure' = IF by = "timer" THEN [r.c EXCEPT !.pending = Null] ELSE r.c

CallsMade == Len(SelectSeq(tlog, LAMBDA e : e.by = "caller"))

\* store.setState({ count: k }) called from outside, k counting the calls
TimedSetState ==
  /\ CallsMade < MaxCalls
  /\ Complete("caller", closure, timers, CallsMade + 1)
  /\ UNCHANGED <<tkind, clock>>
  /\ UNCHANGED <<storeVars, selVars, sliceVars, snapVars, captureVars, asyncVars>>

\* the timer due first runs its callback: if (pendingState) { lastUpdate = Date.now()
\* (not in middleware.ts); dispatch(() => pendingState); pendingState = null }
TimerFires(t) ==
  /\ t \in timers
  /\ t.due <= Now
  /\ \A o \in timers : o.due > t.due \/ (o.due = t.due /\ o.id >= t.id)
  /\ IF closure.pending = Null
       THEN /\ timers' = timers \ {t}
            /\ UNCHANGED <<tstate, closure, nextId, tlog, heard>>
       ELSE Complete("timer",
                     IF tkind = "legacy" THEN closure ELSE [closure EXCEPT !.lastUpdate = Now],
                     timers \ {t}, closure.pending[2])
  /\ UNCHANGED <<tkind, clock>>
  /\ UNCHANGED <<storeVars, selVars, sliceVars, snapVars, captureVars, asyncVars>>

\* 10 ms pass: no callback is due
Tick ==
  /\ clock < MaxClock
  /\ \A t \in timers : t.due > Now
  /\ clock' = clock + 1
  /\ UNCHANGED <<tkind, tstate, closure, timers, nextId, tlog, heard>>
  /\ UNCHANGED <<storeVars, selVars, sliceVars, snapVars, captureVars, asyncVars>>

\* the store as createStore leaves it with middleware k
TimerInit(k) ==
  /\ tkind = k
  /\ clock = 0
  /\ tstate = 0
  /\ closure = Closure0
  /\ timers = {}
  /\ nextId = 1
  /\ tlog = <<>>
  /\ heard = 0

\* ------------------------------------------------------------------ selectors
MaxVal == 1        \* largest value of a numeric field of the state

\* an object value: its identity and its own properties; "obj" values here are filters
Obj(id, props) == <<"obj", id, props>>
FilterProps == {[k \in {"min"} |-> v] : v \in 0..MaxVal} \cup {[k \in {"min", "max"} |-> MaxVal]}

\* Object.is on the values of the model
ObjectIs(x, y) == x[1] = y[1] /\ x = y

\* selector.ts: shallowEqual
ShallowEqual(x, y) ==
  IF ObjectIs(x, y) THEN TRUE
  ELSE IF x[1] # "obj" \/ y[1] # "obj" THEN FALSE
  ELSE /\ Cardinality(DOMAIN x[3]) = Cardinality(DOMAIN y[3])
       /\ \A k \in DOMAIN x[3] : k \in DOMAIN y[3] /\ x[3][k] = y[3][k]

\* the identity a newly allocated object gets: the least one no live reference uses
Fresh(used) == CHOOSE n \in 1..(Cardinality(used) + 1) : n \notin used

\* createSelector's depsChanged(newDeps), lines 75-83
DepsChanged(lastDeps, newDeps) ==
  \/ Len(lastDeps) # Len(newDeps)
  \/ \E i \in DOMAIN newDeps : ~ObjectIs(lastDeps[i], newDeps[i])

\* the options.deps of the createSelector under test: none, or what stands for d1 and d2
DepsOptions == {<<>>, <<Str(1), Str(2)>>}

\* the derived selector under test: deps [s => s.a, s => s.filter]; compute is
\* s => s.a + s.filter.min ("sum"), or s => s.a ? s.a + s.filter.min : undefined ("find")
ComputeKinds == {"sum", "find"}
DepsValues(s) == <<Num(s.a), s.filter>>
Compute(kind, s) ==
  IF kind = "find" /\ s.a = 0 THEN Undefined ELSE Num(s.a + s.filter[3]["min"])

\* the selector function passed to createSelector: s => s.a
SelectorFn(s) == Num(s.a)

NoCall == [sel |-> "none", threw |-> "none", value |-> Undefined, computed |-> FALSE,
           cached |-> Undefined, depsEqual |-> FALSE, changed |-> {}]

\* setState of a partial naming one field: a new state object (lines 64-66, 74)
SelSetState(field, v) ==
  /\ sstate' = [sstate EXCEPT !.id = Fresh({sstate.id} \cup {csel.lastState[2]}),
                              ![field] = v]
  /\ LET differs == IF field = "filter" THEN sstate.filter[3] # v[3] ELSE sstate[field] # v
     IN dirty' = IF differs THEN dirty \cup {field} ELSE dirty
  /\ slast' = NoCall
  /\ UNCHANGED <<csel, dsel, msel>>
  /\ UNCHANGED <<storeVars, timerVars, sliceVars, snapVars, captureVars, asyncVars>>

SetA == \E v \in 0..MaxVal : SelSetState("a", v)
SetOther == \E v \in 0..MaxVal : SelSetState("other", v)
SetFilter ==
  \E p \in FilterProps :
    SelSetState("filter", Obj(Fresh({sstate.filter[2]} \cup {dsel.lastDepsValues[i][2] :
                                       i \in DOMAIN dsel.lastDepsValues}), p))

\* store.use(selector) with the selector createSelector returned, lines 86-111: a cache
\* hit returns lastResult; otherwise line 96 calls `selector`, a name bound nowhere in
\* the module (the parameter is selectorFn), which throws a ReferenceError
UseCreateSelector ==
  LET hit == /\ csel.lastState # Undefined
             /\ csel.lastResult # Undefined
             /\ (ObjectIs(Ref(sstate.id), csel.lastState) \/ ~DepsChanged(csel.lastDeps, csel.deps))
  IN /\ slast' = [sel |-> "createSelector",
                  threw |-> IF hit THEN "none" ELSE "ReferenceError",
                  value |-> IF hit THEN csel.lastResult ELSE Undefined,
                  computed |-> FALSE,
                  cached |-> csel.lastResult,
                  depsEqual |-> ~DepsChanged(csel.lastDeps, csel.deps),
                  changed |-> dirty]
     /\ dirty' = {}
     /\ UNCHANGED <<sstate, csel, dsel, msel>>
     /\ UNCHANGED <<storeVars, timerVars, sliceVars, snapVars, captureVars, asyncVars>>

\* store.use(selector) with the selector derived(compute, {deps}) returned, lines 45-66
UseDerived ==
  LET depsValues == DepsValues(sstate)
      depsChanged == \/ Len(dsel.lastDepsValues) = 0
                     \/ \E i \in DOMAIN depsValues :
                          ~ShallowEqual(depsValues[i], dsel.lastDepsValues[i])
      hit == ~depsChanged /\ dsel.lastResult # Undefined
      result == Compute(dsel.kind, sstate)
  IN /\ dsel' = IF hit THEN dsel
                ELSE [dsel EXCEPT !.lastResult = result, !.lastDepsValues = depsValues]
     /\ slast' = [sel |-> "derived", threw |-> "none",
                  value |-> IF hit THEN dsel.lastResult ELSE result,
                  computed |-> ~hit,
                  cached |-> dsel.lastResult,
                  depsEqual |-> ~depsChanged,
                  changed |-> {}]
     /\ UNCHANGED <<sstate, csel, dirty, msel>>
     /\ UNCHANGED <<storeVars, timerVars, sliceVars, snapVars, captureVars, asyncVars>>

\* createCombinedSelector([s => s.a, s => s.filter], r => r[0] + r[1].min): what
\* selectors.map(selector => selector(state)) gives, and the combiner
SubSelectors(s) == <<Num(s.a), s.filter>>
Combiner(results) == Num(results[1][2] + results[2][3]["min"])

\* the function createCombinedSelector hands to createSelector, lines 128-131
CombinedFn(s) == Combiner(SubSelectors(s))

\* store.use(selector) with the selector createCombinedSelector returned: the function
\* createSelector returns (lines 85-112) around CombinedFn; as in UseCreateSelector,
\* line 96 does not call the function it was given but the unbound name `selector`, so
\* lines 98-111 are never reached and the closure never changes
UseCombined ==
  LET hit == /\ msel.lastState # Undefined
             /\ msel.lastResult # Undefined
             /\ (ObjectIs(Ref(sstate.id), msel.lastState) \/ ~DepsChanged(msel.lastDeps, msel.deps))
      results == SubSelectors(sstate)
  IN /\ slast' = [sel |-> "combined",
                  threw |-> IF hit THEN "none" ELSE "ReferenceError",
                  value |-> IF hit THEN msel.lastResult ELSE Undefined,
                  computed |-> FALSE,
                  cached |-> msel.lastResult,
                  depsEqual |-> /\ Len(msel.seen) = Len(results)
                                /\ \A i \in DOMAIN results : ShallowEqual(results[i], msel.seen[i]),
                  changed |-> {}]
     /\ UNCHANGED <<sstate, csel, dsel, dirty, msel>>
     /\ UNCHANGED <<storeVars, timerVars, sliceVars, snapVars, captureVars, asyncVars>>

\* the store and the two selectors as created
SelInit(depsOptions, kinds) ==
  /\ sstate = [id |-> 1, a |-> 0, other |-> 0, filter |-> Obj(1, [k \in {"min"} |-> 0])]
  /\ \E d \in depsOptions :
       csel = [lastState |-> Undefined, lastResult |-> Undefined, lastDeps |-> d, deps |-> d]
  /\ \E k \in kinds : dsel = [lastResult |-> Undefined, lastDepsValues |-> <<>>, kind |-> k]
  /\ dirty = {}
  /\ msel = [lastState |-> Undefined, lastResult |-> Undefined, lastDeps |-> <<>>, deps |-> <<>>,
             seen |-> <<>>]
  /\ slast = NoCall

\* ------------------------------------------------------------------ slices
\* an updater passed to setSlice: a partial object `obj`, or a function that makes the
\* assignments `mut` on its argument and returns `ret` (or nothing: returns = FALSE)
SliceUpd(kind, obj, mut, returns, ret) ==
  [kind |-> kind, obj |-> obj, mut |-> mut, returns |-> returns, ret |-> ret]

UsersPartials ==
  {[k \in {"filter"} |-> Str(v)] : v \in 0..MaxVal}
    \cup {[k \in {"list"} |-> <<1>>]}
    \cup {[k \in {"list", "filter"} |-> IF k = "list" THEN <<>> ELSE Str(0)]}
PagePartials ==
  {[k \in {"n"} |-> v] : v \in 0..MaxVal} \cup {[k \in {"n", "size"} |-> 0]}

\* for each set P of partials: P as objects, s => { assign p }, s => p, and
\* s => { s.x = ...; return p }
SliceUpdates(P) ==
  {SliceUpd("partial", p, NoProps, FALSE, NoProps) : p \in P}
    \cup {SliceUpd("fn", NoProps, p, FALSE, NoProps) : p \in P}
    \cup {SliceUpd("fn", NoProps, NoProps, TRUE, p) : p \in P}
    \cup {SliceUpd("fn", NoProps, p, TRUE, q) : p, q \in {r \in P : Cardinality(DOMAIN r) = 1}}

NoSliceUpd == SliceUpd("none", NoProps, NoProps, FALSE, NoProps)

\* SliceApply with the updater taken as the whole new value of the field
SliceApplyReplace(cur, u) ==
  IF u.kind = "fn" THEN (IF u.returns THEN u.ret ELSE u.mut) ELSE u.obj

\* the body of the recipe setSlice hands to store.setState (slice.ts lines 48-55, 91-98):
\* what the addressed field `cur` of the draft holds when the recipe returns
SliceApply(cur, u) ==
  IF u.kind = "fn"
    THEN LET draft == Spread(cur, u.mut)
         IN IF u.returns THEN Spread(draft, u.ret) ELSE draft
    ELSE Spread(cur, u.obj)

\* produce(state, draft => recipe(draft)) for createSlice's and createNestedSlice's recipe:
\* the recipe returns nothing, the result is the draft with the addressed field assigned
SliceRecipe(s, path, u) ==
  IF Len(path) = 1
    THEN [s EXCEPT ![path[1]] = SliceApply(s[path[1]], u)]
    ELSE [s EXCEPT ![path[1]][path[2]] = SliceApply(s[path[1]][path[2]], u)]

\* the slice(subPath) of a nested slice with every depth supported
NestedSliceAllowed(path, sub) == [threw |-> "none", made |-> {Append(path, sub)}]

\* createNestedSlice's slice(subPath), lines 106-110
NestedSliceOf(path, sub) == [threw |-> "Error", made |-> {}]

\* createSlice's slice(childPath), lines 63-65
SliceOf(path, child) == [threw |-> "none", made |-> {Append(path, child)}]

SliceDone(op, path, u, updates, notifications, threw) ==
  [op |-> op, path |-> path, upd |-> u, before |-> lstate, updates |-> updates,
   heard |-> notifications, threw |-> threw]

\* createSlice(store, 'users')
CreateSlice ==
  /\ lslices' = lslices \cup {<<"users">>}
  /\ llast' = SliceDone("createSlice", <<"users">>, NoSliceUpd, 0, 0, "none")
  /\ UNCHANGED lstate
  /\ UNCHANGED <<storeVars, timerVars, selVars, snapVars, captureVars, asyncVars>>

\* handle.slice(key): 'page' on the users slice, 'n' on the page slice
SliceSlice(path) ==
  /\ path \in lslices
  /\ Len(path) <= 2
  /\ LET key == IF Len(path) = 1 THEN "page" ELSE "n"
         r == IF Len(path) = 1 THEN SliceOf(path, key) ELSE NestedSliceOf(path, key)
     IN /\ lslices' = lslices \cup r.made
        /\ llast' = SliceDone("slice", Append(path, key), NoSliceUpd, 0, 0, r.threw)
  /\ UNCHANGED lstate
  /\ UNCHANGED <<storeVars, timerVars, selVars, snapVars, captureVars, asyncVars>>

\* handle.setSlice(u): one store.setState(recipe), which commits the result of produce
\* (no middleware) and calls the store's one listener
SetSlice(path, u) ==
  /\ path \in lslices
  /\ Len(path) <= 2
  /\ lstate' = SliceRecipe(lstate, path, u)
  /\ llast' = SliceDone("setSlice", path, u, 1, 1, "none")
  /\ UNCHANGED lslices
  /\ UNCHANGED <<storeVars, timerVars, selVars, snapVars, captureVars, asyncVars>>

\* store.setState({ count: v }) beside the slices
SliceStoreSet(v) ==
  /\ lstate' = Spread(lstate, [k \in {"count"} |-> v])
  /\ llast' = SliceDone("setState", <<>>, NoSliceUpd, 1, 1, "none")
  /\ UNCHANGED lslices
  /\ UNCHANGED <<storeVars, timerVars, selVars, snapVars, captureVars, asyncVars>>

SliceInit ==
  /\ lstate = [users |-> [list |-> <<>>, filter |-> Str(0), page |-> [n |-> 0, size |-> MaxVal]],
               count |-> 0]
  /\ lslices = {}
  /\ llast = [op |-> "none", path |-> <<>>, upd |-> NoSliceUpd, before |-> lstate, updates |-> 0,
              heard |-> 0, threw |-> "none"]

\* ------------------------------------------------------------------ snapshots
MaxTakes == 3      \* Snapshot objects made per behaviour, the initial one included
MaxKept == 2       \* largest maxSnapshots option
DefaultMaxSnapshots == 100

SnapListeners == <<"N1", "N2">>

\* the states of the store: { count: c } and { count: c, extra: 1 }
SnapState(c, x) == [k \in (IF x THEN {"count", "extra"} ELSE {"count"}) |-> IF k = "count" THEN c ELSE 1]
SnapPartials == {[k \in {"count"} |-> c] : c \in {0, 1}} \cup {[k \in {"extra"} |-> 1]}

\* { ...store.getState() }
ShallowCopy(st) == [k \in DOMAIN st |-> st[k]]

Snap(id, st, desc) == [id |-> id, state |-> st, description |-> desc]

\* Truncated keeping the snapshots after the cursor
TruncatedNot(snaps, idx) == snaps

\* takeSnapshot, lines 64-66
Truncated(snaps, idx) == IF idx < Len(snaps) - 1 THEN SubSeq(snaps, 1, idx + 1) ELSE snaps

\* Evict with nothing ever evicted
EvictNever(snaps, idx, max) == [snapshots |-> snaps, currentIndex |-> idx]

\* Evict leaving the cursor where it was
EvictKeepCursor(snaps, idx, max) ==
  IF Len(snaps) > max THEN [snapshots |-> Tail(snaps), currentIndex |-> idx]
  ELSE [snapshots |-> snaps, currentIndex |-> idx]

\* takeSnapshot, lines 73-76
Evict(snaps, idx, max) ==
  IF Len(snaps) > max THEN [snapshots |-> Tail(snaps), currentIndex |-> idx - 1]
  ELSE [snapshots |-> snaps, currentIndex |-> idx]

\* takeSnapshot(desc) with store state st, the new Snapshot being number id, lines 56-77
Take(snaps, idx, st, id, desc, max) ==
  LET pushed == Append(Truncated(snaps, idx), Snap(id, ShallowCopy(st), desc))
  IN Evict(pushed, Len(pushed) - 1, max)

\* InRange with the index one past the end taken as valid
InRangeLoose(index, len) == index >= 0 /\ index <= len

\* applySnapshot, line 81
InRange(index, len) == index >= 0 /\ index < len

\* canUndo, canRedo, lines 94 and 97
CanUndo == currentIndex > 0
CanRedo == currentIndex < Len(snapshots) - 1

\* ProduceReturned merging the returned object into the state
ProduceMerged(base, returned) == Spread(base, returned)

\* produce(state, draft => returned) with a recipe that leaves the draft alone and
\* returns an object: the result is that object
ProduceReturned(base, returned) == returned

IdsOf(snaps) == {snaps[j].id : j \in DOMAIN snaps}
NoState == [k \in {} |-> 0]
Scen0 == [phase |-> 0, first |-> NoState, second |-> NoState]
NoPrev == [op |-> "none", index0 |-> -1, before |-> NoState]
Nobody == [l \in {"N1", "N2"} |-> 0]

\* what throws during a setState: nothing (0), listener number th, or a middleware of
\* the store, before line 74 is reached (the number after the listeners')
MwThrower == Len(SnapListeners) + 1

\* listeners.forEach(listener => listener(state, prevState)) when listener number th
\* throws (0: none does): who has been called, and what setState throws
NotifiedUpTo(th) ==
  [l \in {"N1", "N2"} |->
     IF th = MwThrower THEN 0
     ELSE IF th = 0 \/ (CHOOSE i \in 1..2 : SnapListeners[i] = l) <= th THEN 1 ELSE 0]
ThrownBy(th) ==
  CASE th = 0 -> "none"
    [] th = MwThrower -> "MiddlewareError"
    [] OTHER -> "ListenerError"

\* setState, lines 68-74: the state once setState has returned or thrown
CommittedOr(th, old, new) == IF th = MwThrower THEN old ELSE new

\* the listeners of the model: none throws, or the first one does
Throwers == {0, 1}

\* the snapshots after the cursor
After == {snapshots[j].id : j \in {i \in DOMAIN snapshots : i > currentIndex + 1}}

\* whether, once `op` has been called, an undo() has moved the cursor back and the caller
\* has since called none of takeSnapshot, applySnapshot, redo, clearSnapshots
Undone(op) ==
  CASE op = "undo" -> CanUndo \/ nlast.undone
    [] op \in {"setState", "auto"} -> nlast.undone
    [] OTHER -> FALSE

SnapDone(op, arg, snaps0, evicted, notifications, threw, prev) ==
  [op |-> op, arg |-> arg, index0 |-> currentIndex, before |-> nstate, snaps0 |-> snaps0,
   after0 |-> After, evicted |-> evicted, heard |-> notifications, threw |-> threw,
   prev |-> prev, undone |-> Undone(op)]

\* where the calls stand in the sequence takeSnapshot, update(s), takeSnapshot, undo, redo
\* once `op` has been called
Follows(op) ==
  CASE op = "takeSnapshot" ->
         IF scen.phase = 2 THEN [scen EXCEPT !.phase = 3, !.second = nstate]
         ELSE [phase |-> 1, first |-> nstate, second |-> nstate]
    [] op = "setState" /\ scen.phase \in {1, 2} -> [scen EXCEPT !.phase = 2]
    [] op = "undo" /\ scen.phase = 3 -> [scen EXCEPT !.phase = 4]
    [] op = "redo" /\ scen.phase = 4 -> [scen EXCEPT !.phase = 5]
    [] OTHER -> Scen0

\* takeSnapshot(description) called by `op`
Taking(op, desc) ==
  /\ LET r == Take(snapshots, currentIndex, nstate, taken + 1, desc, nopts.maxSnapshots)
     IN /\ snapshots' = r.snapshots
        /\ currentIndex' = r.currentIndex
        /\ nlast' = SnapDone(op, 0, <<>>,
                             ((IdsOf(snapshots) \ After) \cup {taken + 1}) \ IdsOf(r.snapshots),
                             Nobody, "none", NoPrev)
  /\ taken' = taken + 1
  /\ scen' = Follows(op)
  /\ UNCHANGED <<nstate, nopts>>
  /\ UNCHANGED <<storeVars, timerVars, selVars, sliceVars, captureVars, asyncVars>>

\* manager.takeSnapshot()
TakeSnapshot ==
  /\ taken < MaxTakes
  /\ Taking("takeSnapshot", "none")

\* the setInterval callback of line 115 runs
AutoSnapshotFires ==
  /\ nopts.autoSnapshot
  /\ taken < MaxTakes
  /\ Taking("auto", "Auto snapshot")

\* applySnapshot(index), lines 80-85, called by `op` with argument arg; listener th throws
Applying(op, arg, index, th, prev) ==
  /\ IF InRange(index, Len(snapshots))
       THEN /\ currentIndex' = index
            /\ IF index + 1 \in DOMAIN snapshots
                 THEN /\ nstate' = CommittedOr(th, nstate,
                                                ProduceReturned(nstate, snapshots[index + 1].state))
                      /\ nlast' = SnapDone(op, arg, snapshots, {}, NotifiedUpTo(th),
                                           ThrownBy(th), prev)
                 ELSE /\ nstate' = nstate
                      /\ nlast' = SnapDone(op, arg, snapshots, {}, Nobody, "TypeError", prev)
       ELSE /\ th = 0
            /\ UNCHANGED <<currentIndex, nstate>>
            /\ nlast' = SnapDone(op, arg, snapshots, {}, Nobody, "none", prev)
  /\ scen' = Follows(op)
  /\ UNCHANGED <<nopts, snapshots, taken>>
  /\ UNCHANGED <<storeVars, timerVars, selVars, sliceVars, captureVars, asyncVars>>

\* manager.applySnapshot(index)
ApplySnapshot(index, th) ==
  /\ index \in -1..Len(snapshots)
  /\ Applying("applySnapshot", index, index, th, NoPrev)

\* what undo() and redo() do when canUndo() / canRedo() is false: nothing
Declined(op, prev) ==
  /\ nlast' = SnapDone(op, 0, snapshots, {}, Nobody, "none", prev)
  /\ scen' = Follows(op)
  /\ UNCHANGED <<nstate, nopts, snapshots, currentIndex, taken>>
  /\ UNCHANGED <<storeVars, timerVars, selVars, sliceVars, captureVars, asyncVars>>

\* manager.undo(), lines 100-104
Undo(th) ==
  IF CanUndo THEN Applying("undo", 0, currentIndex - 1, th, NoPrev)
  ELSE th = 0 /\ Declined("undo", NoPrev)

\* manager.redo(), lines 107-111; the record keeps what the undo() just before it found
Redo(th) ==
  LET prev == IF nlast.op = "undo"
                THEN [op |-> "undo", index0 |-> nlast.index0, before |-> nlast.before]
                ELSE NoPrev
  IN IF CanRedo THEN Applying("redo", 0, currentIndex + 1, th, prev)
     ELSE th = 0 /\ Declined("redo", prev)

\* manager.clearSnapshots(), lines 88-91
ClearSnapshots ==
  /\ snapshots' = <<>>
  /\ currentIndex' = -1
  /\ nlast' = SnapDone("clearSnapshots", 0, <<>>, {}, Nobody, "none", NoPrev)
  /\ scen' = Follows("clearSnapshots")
  /\ UNCHANGED <<nstate, nopts, taken>>
  /\ UNCHANGED <<storeVars, timerVars, selVars, sliceVars, captureVars, asyncVars>>

\* store.setState(p) with a partial object, called from outside; listener th throws
SnapSetState(p, th) ==
  /\ nstate' = CommittedOr(th, nstate, Spread(nstate, p))
  /\ nlast' = SnapDone("setState", 0, <<>>, {}, NotifiedUpTo(th), ThrownBy(th), NoPrev)
  /\ scen' = Follows("setState")
  /\ UNCHANGED <<nopts, snapshots, currentIndex, taken>>
  /\ UNCHANGED <<storeVars, timerVars, selVars, sliceVars, captureVars, asyncVars>>

\* createSnapshotManager(store, { maxSnapshots, autoSnapshot }) on a new store
\* { count: 0 }: lines 51-53, then the initial takeSnapshot of line 121
SnapInit(maxes, autos) ==
  /\ nstate = SnapState(0, FALSE)
  /\ \E m \in maxes, a \in autos : nopts = [maxSnapshots |-> m, autoSnapshot |-> a]
  /\ LET r == Take(<<>>, -1, nstate, 1, "Initial state", nopts.maxSnapshots)
     IN /\ snapshots = r.snapshots
        /\ currentIndex = r.currentIndex
  /\ taken = 1
  /\ scen = Scen0
  /\ nlast = [op |-> "create", arg |-> 0, index0 |-> -1, before |-> nstate, snaps0 |-> <<>>,
              after0 |-> {}, evicted |-> {1} \ IdsOf(snapshots), heard |-> Nobody,
              threw |-> "none", prev |-> NoPrev, undone |-> FALSE]

\* ------------------------------------------------------------------ snapshots on the heap
MaxHeap == 11      \* objects allocated per behaviour

Shot(a, content) == [ref |-> a, copy |-> content]

\* the recipe applySnapshot passes to setState: () => snapshots[index].state
Returning(a) == Upd("fn", [k \in {"returned"} |-> Ref(a)], FALSE, TRUE)

\* what the callers of this store pass: { count: c }, { name: 'b' } and the recipe
\* s => { s.count += 1; s.items.push(x) }
CaptureUpdates ==
  {Upd("partial", [k \in {"count"} |-> Num(c)], FALSE, FALSE) : c \in 1..MaxCount}
    \cup {Upd("partial", [k \in {"name"} |-> Str(2)], FALSE, FALSE), Upd("fn", NoProps, TRUE, FALSE)}

\* setState(u) begun from outside the store while a manager may hold objects of the
\* heap: no object is renamed
Begin(u) ==
  /\ Idle
  /\ Len(heap) < MaxHeap
  /\ mwlog' = <<>>
  /\ notified' = <<>>
  /\ listeners' = Live(listeners)
  /\ held' = [ref |-> state, copy |-> Deep(heap, state)]
  /\ Invoke(u, heap, state, <<>>, <<>>)
  /\ UNCHANGED <<subs, middleware, disposed, destroyed>>
  /\ UNCHANGED <<timerVars, selVars, sliceVars, snapVars, asyncVars>>

\* store.setState(u) called from outside
CapSetState(u) ==
  /\ Offered(heap, state, u)
  /\ Begin(u)
  /\ UNCHANGED captureVars

\* takeSnapshot, lines 56-77: the Snapshot's state is a new object with the properties
\* of the store's state object
Capture ==
  /\ Idle
  /\ Len(heap) < MaxHeap
  /\ LET pushed == Append(Truncated(shots, cursor), Shot(Len(heap) + 1, Deep(heap, state)))
         r == Evict(pushed, Len(pushed) - 1, DefaultMaxSnapshots)
     IN /\ heap' = Append(heap, Cell(heap[state].props, <<>>))
        /\ shots' = r.snapshots
        /\ cursor' = r.currentIndex
  /\ UNCHANGED <<state, listeners, subs, middleware, stack, calls, mwlog, notified, thrown,
                 disposed, held, destroyed>>
  /\ UNCHANGED <<timerVars, selVars, sliceVars, snapVars, asyncVars>>

\* createSnapshotManager(store): the initial takeSnapshot of line 121
CreateManager ==
  /\ shots = <<>>
  /\ cursor = -1
  /\ Capture

\* manager.takeSnapshot()
TakeShot ==
  /\ shots # <<>>
  /\ Capture

\* applySnapshot(index) with index in bounds, lines 81-84
Jump(index) ==
  /\ InRange(index, Len(shots))
  /\ cursor' = index
  /\ Begin(Returning(shots[index + 1].ref))
  /\ UNCHANGED shots

\* manager.applySnapshot(index)
ApplyShot(index) ==
  /\ shots # <<>>
  /\ Jump(index)

\* manager.undo(), lines 100-104
UndoShot ==
  /\ cursor > 0
  /\ Jump(cursor - 1)

\* manager.redo(), lines 107-111
RedoShot ==
  /\ cursor < Len(shots) - 1
  /\ Jump(cursor + 1)

\* no snapshot manager has been created on the store
CaptureInit ==
  /\ shots = <<>>
  /\ cursor = -1

\* ------------------------------------------------------------------ async actions
MaxActs == 2       \* asyncAction calls per behaviour

ActionNames == {"save", "load"}
Err(i) == <<"error", i>>

\* the error a throwing onSuccess callback throws
CallbackError == Err(0)

\* dispatch(state => { state.loading = { ...state.loading, [name]: on }; state.errors =
\* { ...state.errors, [name]: error } }) on a store without middleware: the recipe
\* assigns on the draft and returns nothing, so produce gives the changed copy
Marked(st, name, on, error) ==
  [loading |-> Spread(st.loading, [k \in {name} |-> on]),
   errors |-> Spread(st.errors, [k \in {name} |-> error])]

\* dispatch(state => { state.loading = { ...state.loading, [name]: false } })
Cleared0(st, name) == [st EXCEPT !.loading = Spread(@, [k \in {name} |-> FALSE])]

\* isLoading(state, [name]), line 130: state.loading[name] of a missing name is undefined
IsLoading(st, name) == name \in DOMAIN st.loading /\ st.loading[name]

\* asyncAction(action, { actionName: name, onSuccess }), lines 31-52: the loading
\* dispatch, then action() returns a pending promise
StartAction(name, cb) ==
  /\ Len(acts) < MaxActs
  /\ astate' = Marked(astate, name, TRUE, Null)
  /\ acts' = Append(acts, [name |-> name, pc |-> "pending", outcome |-> "none", onSuccess |-> cb,
                            returned |-> "none", left |-> astate])
  /\ UNCHANGED <<storeVars, timerVars, selVars, sliceVars, snapVars, captureVars>>

\* the promise of action i settles
Settles(i, how) ==
  /\ acts[i].pc = "pending"
  /\ acts' = [acts EXCEPT ![i].pc = "settled", ![i].outcome = how]
  /\ UNCHANGED astate
  /\ UNCHANGED <<storeVars, timerVars, selVars, sliceVars, snapVars, captureVars>>

\* the .then handler of a fulfilled action i runs, lines 53-62; when it returns, .catch
\* is passed over, .finally runs and the returned promise fulfils
ThenRuns(i) ==
  /\ acts[i].pc = "settled"
  /\ acts[i].outcome = "fulfilled"
  /\ astate' = Cleared0(astate, acts[i].name)
  /\ acts' = IF acts[i].onSuccess = "throws"
               THEN [acts EXCEPT ![i].pc = "threw"]
               ELSE [acts EXCEPT ![i].pc = "done", ![i].returned = "fulfilled", ![i].left = astate']
  /\ UNCHANGED <<storeVars, timerVars, selVars, sliceVars, snapVars, captureVars>>

\* the .catch handler of action i runs, lines 63-74, with the action's rejection or with
\* what the .then handler threw; it rethrows, .finally runs and the returned promise rejects
CatchRuns(i) ==
  /\ \/ acts[i].pc = "settled" /\ acts[i].outcome = "rejected"
     \/ acts[i].pc = "threw"
  /\ astate' = Marked(astate, acts[i].name, FALSE,
                       IF acts[i].pc = "threw" THEN CallbackError ELSE Err(i))
  /\ acts' = [acts EXCEPT ![i].pc = "done", ![i].returned = "rejected", ![i].left = astate']
  /\ UNCHANGED <<storeVars, timerVars, selVars, sliceVars, snapVars, captureVars>>

\* createStore({ loading: {}, errors: {} })
AsyncInit ==
  /\ astate = [loading |-> [k \in {} |-> FALSE], errors |-> [k \in {} |-> Null]]
  /\ acts = <<>>

\* ------------------------------------------------------------------ specification
\* createStore(initialState, { middleware }) with middleware one of configs
StoreWith(configs) ==
  /\ heap = <<Cell(NoProps, <<>>), Cell(InitialProps, <<>>)>>
  /\ state = StateAddr0
  /\ listeners = <<>>
  /\ subs = <<>>
  /\ middleware \in configs
  /\ stack = <<>>
  /\ calls = <<>>
  /\ mwlog = <<>>
  /\ notified = <<>>
  /\ thrown = "none"
  /\ disposed = {}
  /\ held = [ref |-> StateAddr0, copy |-> InitialDeep]
  /\ destroyed = [on |-> FALSE, released |-> {}]

StoreInit == StoreWith(MwConfigs)

Init ==
  /\ StoreInit
  /\ TimerInit("none")
  /\ SelInit({<<>>}, {"sum"})
  /\ SliceInit
  /\ SnapInit({DefaultMaxSnapshots}, {FALSE})
  /\ CaptureInit
  /\ AsyncInit

Next ==
  \/ \E u \in Updates : SetState(u)
  \/ MwStep
  \/ NotifyReturn
  \/ NotifySkip
  \/ ListenerReturns
  \/ ListenerThrows
  \/ \E k \in DOMAIN subs : ListenerUnsubscribes(k)
  \/ \E l \in ListenerIds : ListenerSubscribes(l)
  \/ \E u \in ListenerUpdates : ListenerSetsState(u)
  \/ \E l \in ListenerIds : Subscribe(l)
  \/ \E k \in DOMAIN subs : Unsubscribe(k)

Spec == Init /\ [][Next]_vars

\* a store created without middleware, with destroy() among its operations; its callers
\* pass  { count: c }  and the recipe  s => { s.count += 1; s.items.push(x) }
DestroyUpdates ==
  {Upd("partial", [k \in {"count"} |-> Num(c)], FALSE, FALSE) : c \in 1..MaxCount}
    \cup {Upd("fn", NoProps, TRUE, FALSE)}

InitDestroy ==
  /\ Init
  /\ middleware = <<>>

\* a store with one listener whose only middleware is a throttle or a debounce of 100 ms;
\* setState is called with { count: 1 }, { count: 2 }, ... at any times
InitTimer ==
  /\ StoreInit
  /\ middleware = <<>>
  /\ \E k \in TimerKinds : TimerInit(k)
  /\ SelInit({<<>>}, {"sum"})
  /\ SliceInit
  /\ SnapInit({DefaultMaxSnapshots}, {FALSE})
  /\ CaptureInit
  /\ AsyncInit

NextTimer ==
  \/ TimedSetState
  \/ \E t \in timers : TimerFires(t)
  \/ Tick

SpecTimer == InitTimer /\ [][NextTimer]_vars

\* a store without middleware read through selectors: setState names one field at a time
InitSelect ==
  /\ StoreInit
  /\ middleware = <<>>
  /\ TimerInit("none")
  /\ SelInit(DepsOptions, ComputeKinds)
  /\ SliceInit
  /\ SnapInit({DefaultMaxSnapshots}, {FALSE})
  /\ CaptureInit
  /\ AsyncInit

NextSelect ==
  \/ SetA
  \/ SetOther
  \/ SetFilter
  \/ UseCreateSelector
  \/ UseDerived
  \/ UseCombined

SpecSelect == InitSelect /\ [][NextSelect]_vars

\* a store without middleware, with one listener, written through createSlice(store,
\* 'users'), its nested slice 'page', and setState
NextSlice ==
  \/ CreateSlice
  \/ \E path \in lslices : SliceSlice(path)
  \/ \E u \in SliceUpdates(UsersPartials) : SetSlice(<<"users">>, u)
  \/ \E u \in SliceUpdates(PagePartials) : SetSlice(<<"users", "page">>, u)
  \/ \E v \in 0..MaxVal : SliceStoreSet(v)

InitSlice ==
  /\ Init
  /\ middleware = <<>>

SpecSlice == InitSlice /\ [][NextSlice]_vars

\* a store without middleware, with two listeners, and its snapshot manager, created
\* with maxSnapshots from 0 to MaxKept and auto-snapshots on
InitSnapshot ==
  /\ StoreInit
  /\ middleware = <<>>
  /\ TimerInit("none")
  /\ SelInit({<<>>}, {"sum"})
  /\ SliceInit
  /\ SnapInit(0..MaxKept, {TRUE})
  /\ CaptureInit
  /\ AsyncInit

NextSnapshot ==
  \/ TakeSnapshot
  \/ AutoSnapshotFires
  \/ \E index \in -1..MaxKept, th \in Throwers : ApplySnapshot(index, th)
  \/ \E th \in Throwers : Undo(th)
  \/ \E th \in Throwers : Redo(th)
  \/ ClearSnapshots
  \/ \E p \in SnapPartials, th \in Throwers : SnapSetState(p, th)

SpecSnapshot == InitSnapshot /\ [][NextSnapshot]_vars

\* the same manager on a store that has a middleware which throws for some updates (a
\* validation middleware), and listeners that do not throw
Rejecting == {0, MwThrower}

NextTravel ==
  \/ TakeSnapshot
  \/ AutoSnapshotFires
  \/ \E index \in -1..MaxKept, th \in Rejecting : ApplySnapshot(index, th)
  \/ \E th \in Rejecting : Undo(th)
  \/ \E th \in Rejecting : Redo(th)
  \/ ClearSnapshots
  \/ \E p \in SnapPartials, th \in Rejecting : SnapSetState(p, th)

SpecTravel == InitSnapshot /\ [][NextTravel]_vars

\* a store whose middleware list has the dispatching middleware; its callers pass
\* { count: c }, { name: 'b' } and the recipe  s => { s.count += 1; s.items.push(x) }
DispatchUpdates ==
  {Upd("partial", [k \in {"count"} |-> Num(c)], FALSE, FALSE) : c \in 1..MaxCount}
    \cup {Upd("partial", [k \in {"name"} |-> Str(2)], FALSE, FALSE), Upd("fn", NoProps, TRUE, FALSE)}

InitDispatch ==
  /\ StoreWith(DispatchConfigs)
  /\ TimerInit("none")
  /\ SelInit({<<>>}, {"sum"})
  /\ SliceInit
  /\ SnapInit({DefaultMaxSnapshots}, {FALSE})
  /\ CaptureInit
  /\ AsyncInit

NextDispatch ==
  \/ \E u \in DispatchUpdates : SetState(u)
  \/ MwStep
  \/ MwDispatches
  \/ MwResume
  \/ NotifyReturn
  \/ ListenerReturns
  \/ \E l \in ListenerIds : Subscribe(l)
  \/ \E k \in DOMAIN subs : Unsubscribe(k)

SpecDispatch == InitDispatch /\ [][NextDispatch]_vars

\* a store without middleware or listeners on which a snapshot manager is created at
\* some moment
NextCapture ==
  \/ \E u \in CaptureUpdates : CapSetState(u)
  \/ NotifyReturn
  \/ CreateManager
  \/ TakeShot
  \/ \E index \in DOMAIN shots : ApplyShot(index - 1)
  \/ UndoShot
  \/ RedoShot

SpecCapture == InitDestroy /\ [][NextCapture]_vars

\* a store without middleware or listeners whose callers start async actions named
\* 'save' and 'load', with or without an onSuccess callback that throws
NextAsync ==
  \/ \E name \in ActionNames, cb \in {"none", "throws"} : StartAction(name, cb)
  \/ \E i \in DOMAIN acts, how \in {"fulfilled", "rejected"} : Settles(i, how)
  \/ \E i \in DOMAIN acts : ThenRuns(i)
  \/ \E i \in DOMAIN acts : CatchRuns(i)

SpecAsync == InitDestroy /\ [][NextAsync]_vars

\* a store whose middleware list is the one middleware combineMiddleware(m1, ..., mn)
InitCombine ==
  /\ StoreWith({<<k>> : k \in DOMAIN Combinations})
  /\ TimerInit("none")
  /\ SelInit({<<>>}, {"sum"})
  /\ SliceInit
  /\ SnapInit({DefaultMaxSnapshots}, {FALSE})
  /\ CaptureInit
  /\ AsyncInit

NextCombine ==
  \/ \E u \in Updates : SetState(u)
  \/ MwCombined
  \/ NotifyReturn
  \/ ListenerReturns
  \/ \E l \in ListenerIds : Subscribe(l)

SpecCombine == InitCombine /\ [][NextCombine]_vars

\* a store whose middleware list has the persist middleware
InitPersist ==
  /\ StoreWith(PersistConfigs)
  /\ TimerInit("none")
  /\ SelInit({<<>>}, {"sum"})
  /\ SliceInit
  /\ SnapInit({DefaultMaxSnapshots}, {FALSE})
  /\ CaptureInit
  /\ AsyncInit

NextPersist ==
  \/ \E u \in DispatchUpdates : SetState(u)
  \/ MwStep
  \/ MwPersists
  \/ NotifyReturn
  \/ ListenerReturns
  \/ \E l \in ListenerIds : Subscribe(l)
  \/ \E k \in DOMAIN subs : Unsubscribe(k)

SpecPersist == InitPersist /\ [][NextPersist]_vars

NextDestroy ==
  \/ \E u \in DestroyUpdates : SetState(u)
  \/ NotifyReturn
  \/ NotifySkip
  \/ ListenerReturns
  \/ ListenerThrows
  \/ \E k \in DOMAIN subs : ListenerUnsubscribes(k)
  \/ \E l \in ListenerIds : ListenerSubscribes(l)
  \/ \E u \in ListenerUpdates : ListenerSetsState(u)
  \/ ListenerDestroys
  \/ \E l \in ListenerIds : Subscribe(l)
  \/ \E k \in DOMAIN subs : Unsubscribe(k)
  \/ Destroy

SpecDestroy == InitDestroy /\ [][NextDestroy]_vars

\* ------------------------------------------------------------------ properties
Committed(id) == calls[id].next # 0
NotifiedFor(id) == SelectSeq(notified, LAMBDA e : e.id = id)
TimesNotified(id, l) == Len(SelectSeq(notified, LAMBDA e : e.id = id /\ e.l = l))
ListenersOf(log) == [j \in DOMAIN log |-> log[j].l]

\* C1: every setState call that commits notifies each subscribed listener exactly once,
\* with (the state this call committed, the state the store held before this call).
C1_EachListenerNotifiedOnce ==
  Idle =>
    \A id \in DOMAIN calls :
      Committed(id) =>
        \A j \in DOMAIN calls[id].subsAt :
          LET l == calls[id].subsAt[j]
          IN Has(listeners, l) =>
               /\ TimesNotified(id, l) = 1
               /\ \A n \in DOMAIN notified :
                    (notified[n].id = id /\ notified[n].l = l) =>
                      /\ notified[n].next = calls[id].next
                      /\ Deep(heap, notified[n].prev) = Deep(heap, calls[id].before)

\* C2: the object getState() returned before a setState call has the same content after
\* it, whatever the update (partial object or draft function) and whatever happens
\* during the call.
C2_ExposedStateUnchanged == Deep(heap, held.ref) = held.copy

C2_Witness ==
  /\ Idle
  /\ calls # <<>>
  /\ calls[1].upd.kind = "fn"
  /\ calls[1].upd.mut
  /\ Committed(1)
  /\ state # held.ref
  /\ Deep(heap, state) # held.copy
  /\ Deep(heap, state)["items"] # held.copy["items"]

\* C3: N distinct listeners subscribed in the order L1..LN are invoked by one setState
\* call in exactly that order, each exactly once (no listener subscribing or
\* unsubscribing meanwhile).
C3_NotifiedInSubscriptionOrder ==
  (Idle /\ \A n \in DOMAIN notified : notified[n].did \notin {"sub", "unsub"}) =>
    \A id \in DOMAIN calls :
      Committed(id) => ListenersOf(NotifiedFor(id)) = calls[id].subsAt

\* C4: without middleware, setState with a partial object commits a state in which every
\* field the partial names has the partial's value and every other field keeps the
\* value it had before the call.
C4_PartialIsShallowMerge ==
  \A id \in DOMAIN calls :
    (middleware = <<>> /\ calls[id].upd.kind = "partial") =>
      /\ Committed(id)
      /\ LET old == heap[calls[id].before].props
             new == heap[calls[id].next].props
             part == calls[id].upd.obj
         IN /\ DOMAIN new = (DOMAIN old) \cup (DOMAIN part)
            /\ \A k \in DOMAIN part : new[k] = part[k]
            /\ \A k \in (DOMAIN old) \ (DOMAIN part) : new[k] = old[k]

C4_Witness ==
  /\ Idle
  /\ middleware = <<>>
  /\ calls # <<>>
  /\ calls[1].upd.kind = "partial"
  /\ state = calls[1].next
  /\ heap[state].props["count"] # heap[calls[1].before].props["count"]
  /\ {"name", "items", "increment"} \subseteq DOMAIN heap[state].props

\* C5: without middleware, setState with a function that returns a partial object
\* (s => ({count: s.count + 1})) commits a state with the returned fields updated and
\* every other field of the previous state preserved.
C5_ReturnedPartialIsMerged ==
  \A id \in DOMAIN calls :
    (middleware = <<>> /\ calls[id].upd.kind = "fn" /\ calls[id].upd.ret
       /\ ~calls[id].upd.mut /\ Committed(id)) =>
      LET old == heap[calls[id].before].props
          new == heap[calls[id].next].props
      IN /\ new["count"] = Num(old["count"][2] + 1)
         /\ \A k \in (DOMAIN old) \ {"count"} : k \in DOMAIN new /\ new[k] = old[k]

\* what applyMiddleware carries on with after the logged invocation e
CarriedOn(e) == IF e.out[1] = "ref" THEN e.out[2] ELSE e.next
MwLogOf(id) == SelectSeq(mwlog, LAMBDA e : e.id = id)

\* C6: the state a setState commits on a store with middleware m1..mn is the left fold of
\* the middlewares over the engine's candidate: they run in registration order, each
\* gets as nextState the output of the one before (its input when that one returned
\* undefined) and all get the same prevState, the state before the call.
C6_MiddlewareLeftFold ==
  \A id \in DOMAIN calls :
    (middleware # <<>> /\ Committed(id)) =>
      LET log == MwLogOf(id)
      IN /\ Len(log) = Len(middleware)
         /\ \A j \in DOMAIN log :
              /\ log[j].i = j
              /\ log[j].prev = calls[id].prev
              /\ Deep(heap, log[j].prev) = Deep(heap, calls[id].before)
              /\ log[j].next = IF j = 1 THEN calls[id].cand ELSE CarriedOn(log[j - 1])
         /\ calls[id].next = CarriedOn(log[Len(log)])

C6_Witness ==
  /\ Idle
  /\ thrown = "none"
  /\ calls # <<>>
  /\ Committed(1)
  /\ Len(middleware) >= 2
  /\ \E n \in DOMAIN mwlog : mwlog[n].out = Undefined
  /\ \E n \in DOMAIN mwlog : mwlog[n].out[1] = "ref" /\ mwlog[n].out[2] # mwlog[n].next
  /\ calls[1].next # calls[1].cand

\* C7: when a middleware throws during setState the remaining middlewares do not run,
\* the exception reaches the setState caller, the store state is the one before the
\* call and no listener is notified for that update.
C7_MiddlewareThrowAborts ==
  \A n \in DOMAIN mwlog :
    mwlog[n].out[1] = "threw" =>
      /\ n = Len(mwlog)
      /\ Idle
      /\ thrown = "MiddlewareError"
      /\ ~Committed(mwlog[n].id)
      /\ state = calls[mwlog[n].id].before
      /\ NotifiedFor(mwlog[n].id) = <<>>

C7_Witness ==
  /\ mwlog # <<>>
  /\ mwlog[Len(mwlog)].out[1] = "threw"
  /\ mwlog[Len(mwlog)].i < Len(middleware)
  /\ Live(listeners) # <<>>
  /\ Deep(heap, calls[1].cand) # Deep(heap, state)

\* C8: setState with an update that is neither a function nor an object (null, undefined,
\* a primitive) throws InvalidUpdateError to the caller, leaves the state unchanged and
\* notifies no listener.
C8_InvalidUpdateRejected ==
  \A id \in DOMAIN calls :
    calls[id].upd.kind \in {"null", "undefined", "number"} =>
      /\ calls[id].err = "InvalidUpdateError"
      /\ thrown = "InvalidUpdateError"
      /\ ~Committed(id)
      /\ NotifiedFor(id) = <<>>

\* C9: when a listener throws during a notification pass, the listeners registered after
\* it are still notified for that update, the new state stays committed and the
\* exception does not reach the setState caller.
C9_ThrowingListenerIsolated ==
  Idle =>
    \A n \in DOMAIN notified :
      notified[n].did = "throw" =>
        LET id == notified[n].id
            at == calls[id].subsAt
        IN /\ thrown = "none"
           /\ Committed(id)
           /\ \A j, k \in DOMAIN at :
                (at[j] = notified[n].l /\ j < k /\ Has(listeners, at[k]))
                  => TimesNotified(id, at[k]) >= 1

\* the subscriptions of listener l whose disposer has not been called
Active(l) == {k \in DOMAIN subs : subs[k] = l /\ k \notin disposed}

\* C10: subscribing the same listener twice makes two subscriptions: one setState calls
\* it once per subscription whose disposer has not been called, so twice, and once
\* after one of the two disposers was called.
C10_DistinctSubscriptions ==
  (Idle /\ thrown = "none" /\ \A n \in DOMAIN notified : notified[n].did = "return") =>
    \A id \in DOMAIN calls :
      Committed(id) => \A l \in ListenerIds : TimesNotified(id, l) = Cardinality(Active(l))

\* C11: calling a disposer a second time has no effect on the set of active
\* subscriptions: the listeners registered with the store change only when a listener is
\* subscribed or a disposer is called for the first time, so a repeated call removes
\* neither another listener nor a subscription created after the first call.
C11_SecondDisposalNoEffect ==
  [][(subs' = subs /\ disposed' = disposed) =>
       \A l \in ListenerIds : Has(listeners', l) = Has(listeners, l)]_vars

\* C12: a disposer called while a notification pass is in progress (by the listener
\* itself or by one that runs earlier) does not throw, the deregistered listener is not
\* invoked again in that pass, and it is not invoked for any later update: a listener
\* stays registered only while one of its subscriptions is not disposed, after an
\* unsubscribe it is invoked again only once it has been subscribed anew, and the
\* unsubscribing listener's call is never where an exception comes from.
C12_UnsubscribeDuringNotify ==
  /\ \A l \in ListenerIds : Has(listeners, l) => Active(l) # {}
  /\ \A n \in DOMAIN notified : \A m \in DOMAIN notified :
       (n < m /\ notified[n].did = "unsub" /\ notified[m].l = notified[n].arg) =>
         \E j \in n..(m - 1) : notified[j].did = "sub" /\ notified[j].arg = notified[m].l
  /\ (thrown # "none" /\ notified # <<>>) =>
       notified[Len(notified)].did \in {"throw", "setState"}

C12_Witness ==
  /\ Idle
  /\ thrown = "none"
  /\ \E n \in DOMAIN notified :
       /\ notified[n].did = "unsub"
       /\ notified[n].arg # notified[n].l
       /\ \E j \in DOMAIN calls[notified[n].id].subsAt :
            calls[notified[n].id].subsAt[j] = notified[n].arg
       /\ TimesNotified(notified[n].id, notified[n].arg) = 0

C14_ReleasedNeverInvoked ==
  /\ AtListener => \E k \in DOMAIN subs \ destroyed.released : subs[k] = listeners[Top.i]
  /\ \A l \in ListenerIds :
       Has(listeners, l) => \E k \in DOMAIN subs \ destroyed.released : subs[k] = l

C14_Witness ==
  /\ Idle
  /\ thrown = "none"
  /\ destroyed.on
  /\ calls # <<>>
  /\ Committed(1)
  /\ notified # <<>>
  /\ \E k \in destroyed.released \ disposed : TimesNotified(1, subs[k]) = 0

Throttled == tkind \in {"legacy", "throttle"}
Callers == SelectSeq(tlog, LAMBDA e : e.by = "caller")
\* the setState calls, from outside or from a timer, that changed the state
Changes(from) == {i \in DOMAIN tlog : tlog[i].at >= from /\ tlog[i].committed # tlog[i].before}

\* C15: with createThrottleMiddleware(100), a setState arriving at least 100 ms after the
\* last accepted update is committed at once and notifies the listener once; a setState
\* arriving inside the window does not notify the listener at that moment; and once the
\* window has elapsed the listener has been notified exactly one more time (the test:
\* two calls in a row, then 110 ms, give call counts 1, 1, 2).
C15_ThrottleTestCounts ==
  Throttled =>
    /\ \A i \in DOMAIN tlog :
         tlog[i].by = "caller" =>
           IF tlog[i].inside
             THEN tlog[i].heard1 = tlog[i].heard0
             ELSE tlog[i].committed = tlog[i].offered /\ tlog[i].heard1 = tlog[i].heard0 + 1
    /\ (/\ CallsMade = 2
        /\ ~Callers[1].inside
        /\ Callers[2].inside
        /\ Callers[2].at = Callers[1].at
        /\ clock > Callers[2].at + Window
        /\ timers = {}) => heard = 2

\* C16: with a throttle window of 100 ms, setState calls at t = 0, 10 and 20 ms produce
\* exactly one more change of state at or after t = 100 ms, to the payload of the last
\* call and never to that of the call at 10 ms; after the window getState() shows the
\* last payload.
C16_ThrottleCoalesces ==
  (/\ Throttled
   /\ CallsMade = 3
   /\ Callers[1].at = 0
   /\ Callers[2].at = 1
   /\ Callers[3].at = 2) =>
     /\ \A i \in DOMAIN tlog : tlog[i].committed # Callers[2].offered
     /\ clock > Window =>
          /\ tstate = Callers[3].offered
          /\ Cardinality(Changes(Window)) = 1

\* C17: with createDebounceMiddleware(ms), leading = false, once a burst of setState
\* calls has been followed by ms of quiet and nothing is pending any more, the state is
\* the payload of the last call of the burst; and a call never changes the state to
\* anything but the payload of the latest call made.
C17_DebounceCommitsLast ==
  tkind = "debounce" =>
    /\ (CallsMade > 0 /\ timers = {}) => tstate = Callers[CallsMade].offered
    /\ \A i \in DOMAIN tlog :
         tlog[i].committed # tlog[i].before =>
           tlog[i].committed = Len(SelectSeq(SubSeq(tlog, 1, i), LAMBDA e : e.by = "caller"))

\* C18: for a selector f wrapped by createSelector with identity memoization (no deps),
\* store.use(f) returns f applied to the current state: the value of the call before
\* when no setState came in between, and the fresh value after a setState that changed
\* a field f reads.
C18_SelectorMemoized ==
  (slast.sel = "createSelector" /\ csel.deps = <<>>) =>
    /\ slast.threw = "none"
    /\ slast.value = SelectorFn(sstate)

\* the fields d1 and d2 stand for
Covered == {"a", "filter"}

\* C19: a createSelector(f, {deps: [d1, d2]}) selector recomputes f after a setState that
\* changed a field covered by d1 or d2, and does not recompute f after setState calls
\* that changed only fields covered by neither.
C19_SelectorDeps ==
  (slast.sel = "createSelector" /\ csel.deps # <<>>) =>
    /\ slast.changed \cap Covered # {} => slast.computed
    /\ (slast.cached # Undefined /\ slast.changed \cap Covered = {}) => ~slast.computed

\* C20: a derived(compute, {deps}) selector evaluates its dependency selectors on each
\* call and compares the values element-wise, by shallowEqual, with those recorded at
\* the last recomputation: when all are equal it returns the cached result without
\* calling compute; otherwise it calls compute, records the result and the dependency
\* values, and returns the new result.
C20_DerivedMemoized ==
  slast.sel = "derived" =>
    IF slast.depsEqual
      THEN ~slast.computed /\ slast.value = slast.cached
      ELSE /\ slast.computed
           /\ slast.value = Compute(dsel.kind, sstate)
           /\ dsel.lastResult = slast.value
           /\ dsel.lastDepsValues = DepsValues(sstate)

\* C21: a selector built by createCombinedSelector(selectors, combiner) returns the
\* combiner applied to the sub-selectors' outputs for the current state, and it calls
\* the combiner when, and only when, at least one sub-selector's output differs (by
\* shallowEqual) from the output seen at the previous computation (the first call
\* computes).
C21_CombinedRecomputes ==
  slast.sel = "combined" =>
    /\ slast.threw = "none"
    /\ slast.value = CombinedFn(sstate)
    /\ slast.computed <=> ~slast.depsEqual

\* the keys an updater names, and the value it gives each
Named(u) == IF u.kind = "fn" THEN (DOMAIN u.mut) \cup (IF u.returns THEN DOMAIN u.ret ELSE {})
            ELSE DOMAIN u.obj
ValueGiven(u, k) ==
  IF u.kind # "fn" THEN u.obj[k]
  ELSE IF u.returns /\ k \in DOMAIN u.ret THEN u.ret[k] ELSE u.mut[k]
At(s, path) == IF Len(path) = 1 THEN s[path[1]] ELSE s[path[1]][path[2]]

\* C22: setSlice on a slice made by createSlice(store, field), or on its one-level
\* nested slice, gives the keys the update names their new values inside the addressed
\* field and changes nothing else: the other keys of that field, the other keys of the
\* parent field and the sibling fields of the state keep their values, and the store has
\* seen exactly one setState.
C22_SetSliceFrame ==
  llast.op = "setSlice" =>
    LET old == llast.before
        path == llast.path
        u == llast.upd
    IN /\ llast.updates = 1
       /\ DOMAIN lstate = DOMAIN old
       /\ \A f \in DOMAIN old : f # path[1] => lstate[f] = old[f]
       /\ Len(path) = 2 =>
            /\ DOMAIN lstate[path[1]] = DOMAIN old[path[1]]
            /\ \A k \in DOMAIN old[path[1]] : k # path[2] => lstate[path[1]][k] = old[path[1]][k]
       /\ DOMAIN At(lstate, path) = (DOMAIN At(old, path)) \cup Named(u)
       /\ \A k \in DOMAIN At(lstate, path) :
            At(lstate, path)[k] = IF k \in Named(u) THEN ValueGiven(u, k) ELSE At(old, path)[k]

C22_Witness ==
  /\ llast.op = "setSlice"
  /\ llast.path = <<"users">>
  /\ llast.upd = SliceUpd("partial", [k \in {"filter"} |-> Str(1)], NoProps, FALSE, NoProps)
  /\ llast.before["users"]["filter"] = Str(0)
  /\ llast.before["users"]["list"] = <<1>>
  /\ lstate["users"]["filter"] = Str(1)
  /\ lstate["users"]["list"] = <<1>>
  /\ lstate["count"] = MaxVal

\* C23: asking a nested slice for a slice (createSlice(store, a).slice(b).slice(c)) throws
\* at once: no slice handle is made, the store state is unchanged, setState is not
\* called and no listener is notified.
C23_DeepSliceFails ==
  (llast.op = "slice" /\ Len(llast.path) > 2) =>
    /\ llast.threw = "Error"
    /\ llast.path \notin lslices
    /\ lstate = llast.before
    /\ llast.updates = 0
    /\ llast.heard = 0

C23_Witness ==
  /\ llast.op = "slice"
  /\ llast.path = <<"users", "page", "n">>
  /\ llast.threw = "Error"
  /\ lstate # [users |-> [list |-> <<>>, filter |-> Str(0), page |-> [n |-> 0, size |-> MaxVal]],
               count |-> 0]

\* the calls of takeSnapshot: by the caller and by the auto-snapshot timer
Takes == {"takeSnapshot", "auto"}

\* C24 as stated: whenever the snapshot sequence is non-empty, 0 <= cursor < its length,
\* whatever the operations made and whatever maxSnapshots is; and right after
\* construction the sequence holds the initial snapshot, with the cursor on it.
C24_CursorValid ==
  /\ snapshots # <<>> => (0 <= currentIndex /\ currentIndex < Len(snapshots))
  /\ nlast.op = "create" =>
       /\ Len(snapshots) = 1
       /\ snapshots[1].description = "Initial state"
       /\ currentIndex = 0

\* C24, amended: whenever the snapshot sequence is non-empty, 0 <= cursor < its length,
\* whatever the operations made and whatever maxSnapshots is; right after construction
\* with maxSnapshots >= 1 the sequence holds the initial snapshot, with the cursor on
\* it, and with maxSnapshots < 1 the sequence is empty and the cursor is -1.
C24_CursorValidKept ==
  /\ snapshots # <<>> => (0 <= currentIndex /\ currentIndex < Len(snapshots))
  /\ nlast.op = "create" =>
       IF nopts.maxSnapshots >= 1
         THEN /\ Len(snapshots) = 1
              /\ snapshots[1].description = "Initial state"
              /\ currentIndex = 0
         ELSE snapshots = <<>> /\ currentIndex = -1

C24_Witness ==
  /\ nopts.maxSnapshots = 1
  /\ taken = MaxTakes
  /\ nlast.op = "auto"
  /\ Len(snapshots) = 1
  /\ snapshots[1].id = taken
  /\ currentIndex = 0

\* C25: a takeSnapshot called while the cursor is not at the end leaves none of the
\* snapshots that were after the cursor in the sequence, and the cursor on the new
\* snapshot, which is the last entry: canRedo() is false.
C25_TakeTruncates ==
  (nlast.op \in Takes /\ nlast.after0 # {}) =>
    /\ ~CanRedo
    /\ snapshots # <<>>
    /\ currentIndex = Len(snapshots) - 1
    /\ snapshots[Len(snapshots)].id = taken
    /\ IdsOf(snapshots) \cap nlast.after0 = {}

C25_Witness ==
  /\ nlast.op = "takeSnapshot"
  /\ nlast.after0 # {}
  /\ nlast.index0 = 0
  /\ Len(snapshots) = 2
  /\ snapshots[2].state # snapshots[1].state

\* C26: with maxSnapshots >= 1 the manager never retains more than maxSnapshots
\* snapshots; a takeSnapshot that would exceed the maximum evicts exactly one snapshot,
\* the oldest, and the cursor then designates the snapshot just taken.
C26_BoundedHistory ==
  nopts.maxSnapshots >= 1 =>
    /\ Len(snapshots) <= nopts.maxSnapshots
    /\ nlast.op \in Takes =>
         /\ currentIndex + 1 \in DOMAIN snapshots
         /\ snapshots[currentIndex + 1].id = taken
         /\ Cardinality(nlast.evicted) <= 1
         /\ \A e \in nlast.evicted : \A j \in DOMAIN snapshots : e < snapshots[j].id

C26_Witness ==
  /\ nopts.maxSnapshots = MaxKept
  /\ nlast.op = "takeSnapshot"
  /\ nlast.evicted = {1}
  /\ Len(snapshots) = MaxKept
  /\ currentIndex = MaxKept - 1

\* C27 as stated: after takeSnapshot(); update; takeSnapshot(); undo() the state is
\* content-equal to the one the first takeSnapshot captured, and after a following
\* redo() to the one the second captured; and any undo() followed by redo() returns to
\* the cursor and the state from before the undo().
C27_UndoRedoRoundTrip ==
  /\ scen.phase = 4 => nstate = scen.first
  /\ scen.phase = 5 => nstate = scen.second
  /\ (nlast.op = "redo" /\ nlast.prev.op = "undo") =>
       /\ currentIndex = nlast.prev.index0
       /\ nstate = nlast.prev.before

\* C27, amended: with maxSnapshots >= 2, after takeSnapshot(); update; takeSnapshot();
\* undo() the state is content-equal to the one the first takeSnapshot captured, and
\* after a following redo() to the one the second captured; and an undo() that moved
\* the cursor, called when the state was content-equal to the snapshot under the
\* cursor, followed by redo(), returns to the same cursor and state.
C27_UndoRedoRoundTripKept ==
  /\ nopts.maxSnapshots >= 2 =>
       /\ scen.phase = 4 => nstate = scen.first
       /\ scen.phase = 5 => nstate = scen.second
  /\ (/\ nlast.op = "redo"
      /\ nlast.prev.op = "undo"
      /\ nlast.prev.index0 > 0
      /\ nlast.prev.before = nlast.snaps0[nlast.prev.index0 + 1].state) =>
       /\ currentIndex = nlast.prev.index0
       /\ nstate = nlast.prev.before

C27_Witness ==
  /\ scen.phase = 5
  /\ nopts.maxSnapshots >= 2
  /\ scen.first # scen.second
  /\ "extra" \in DOMAIN scen.second
  /\ "extra" \notin DOMAIN scen.first
  /\ nstate = scen.second
  /\ nlast.prev.op = "undo"
  /\ nlast.prev.index0 = currentIndex

\* the cases of C28: undo() with the cursor on the first snapshot, redo() with the
\* cursor on the last, applySnapshot(index) with index < 0 or index >= length
OutOfBounds ==
  \/ nlast.op = "undo" /\ nlast.snaps0 # <<>> /\ nlast.index0 = 0
  \/ nlast.op = "redo" /\ nlast.snaps0 # <<>> /\ nlast.index0 = Len(nlast.snaps0) - 1
  \/ nlast.op = "applySnapshot" /\ (nlast.arg < 0 \/ nlast.arg >= Len(nlast.snaps0))

\* C28: undo() on the first snapshot, redo() on the last and applySnapshot(index) with an
\* index out of range do nothing: cursor, snapshot sequence and store state are as
\* before, no listener is called and nothing is thrown.
C28_OutOfBoundsNoOp ==
  OutOfBounds =>
    /\ currentIndex = nlast.index0
    /\ snapshots = nlast.snaps0
    /\ nstate = nlast.before
    /\ nlast.heard = Nobody
    /\ nlast.threw = "none"

C28_Witness ==
  /\ nlast.op = "undo"
  /\ nlast.index0 = 0
  /\ Len(snapshots) = 2
  /\ nstate # snapshots[1].state
  /\ currentIndex = 0

\* C29: applySnapshot(index) with 0 <= index < length sets the cursor to index, makes
\* the store state content-equal to snapshots[index].state, notifies each subscriber
\* once, and leaves the snapshot sequence as it was.
C29_ApplyInBounds ==
  (/\ nlast.op = "applySnapshot"
   /\ nlast.arg >= 0
   /\ nlast.arg < Len(nlast.snaps0)) =>
    /\ currentIndex = nlast.arg
    /\ nstate = nlast.snaps0[nlast.arg + 1].state
    /\ \A l \in DOMAIN nlast.heard : nlast.heard[l] = 1
    /\ snapshots = nlast.snaps0

\* C30: an update started through the dispatch handed to a middleware is a new update
\* sequenced after the one in flight, never nested inside it: no setState invocation
\* begins while another is on the stack, the dispatched update starts from the state the
\* update in flight committed, and once both are done the store holds the dispatched
\* update's result (the listeners make no calls of their own here, so every call after
\* the first of a turn is a dispatched one).
C30_DispatchSequenced ==
  /\ Len(stack) <= 1
  /\ \A d \in DOMAIN calls : d > 1 => (Committed(1) /\ calls[d].before = calls[1].next)
  /\ (Idle /\ thrown = "none" /\ Len(calls) > 1) =>
       /\ Committed(Len(calls))
       /\ state = calls[Len(calls)].next

\* the calls of listener l since the top-level setState began, in time order
HeardBy(l) == SelectSeq(notified, LAMBDA e : e.l = l)

\* C31: each update's commit and notification pass completes before another update's
\* begins as listeners see it, setState calls made by a listener during a pass included:
\* every listener call has as arguments the state its update committed and the state
\* before that update, and for each listener the prevState of a call equals the nextState
\* of the call it received before.
C31_UpdatesSequenced ==
  (Idle /\ thrown = "none" /\ \A n \in DOMAIN notified : notified[n].did \in {"return", "setState"}) =>
    /\ \A n \in DOMAIN notified :
         /\ notified[n].next = calls[notified[n].id].next
         /\ Deep(heap, notified[n].prev) = Deep(heap, calls[notified[n].id].before)
    /\ \A l \in ListenerIds :
         \A j \in 1..(Len(HeardBy(l)) - 1) :
           Deep(heap, HeardBy(l)[j + 1].prev) = Deep(heap, HeardBy(l)[j].next)

InvokedFor(id) == {notified[n].l : n \in {m \in DOMAIN notified : notified[m].id = id}}
RegisteredAt(id) == {calls[id].subsAt[j] : j \in DOMAIN calls[id].subsAt}

\* C32: the listeners invoked for an update are those registered at the moment the update
\* commits: a listener subscribed by another listener during the notification pass is
\* not invoked for the update in progress (no listener throwing or unsubscribing).
C32_NotifiedAreThoseAtCommit ==
  (Idle /\ thrown = "none"
     /\ \A n \in DOMAIN notified : notified[n].did \in {"return", "sub", "setState"}) =>
    \A id \in DOMAIN calls : Committed(id) => InvokedFor(id) = RegisteredAt(id)

TimeTravel == {"applySnapshot", "undo", "redo"}

\* C33: when the store update made inside applySnapshot, undo or redo throws (a throwing
\* middleware or listener), the manager's cursor keeps the value it had before the call.
C33_FailedTravelKeepsCursor ==
  (nlast.op \in TimeTravel /\ nlast.threw \in {"MiddlewareError", "ListenerError"}) =>
    currentIndex = nlast.index0

\* C34: with autoSnapshot enabled, after an undo() canRedo() stays true until the caller
\* itself calls takeSnapshot, applySnapshot, redo or clearSnapshots, whatever auto-snapshot
\* timer firings (and setState calls) come in between: a timer firing never discards
\* history the caller can still redo.
C34_AutoKeepsRedo == (nopts.autoSnapshot /\ nlast.undone) => CanRedo

\* C35: the state captured in a retained snapshot never changes: whatever setState calls
\* (partial object or draft function), applySnapshot, undo, redo and takeSnapshot calls
\* come later, the content of every retained snapshot's state is the content the store
\* state had when the snapshot was taken.
C35_SnapshotsImmutable ==
  \A j \in DOMAIN shots : Deep(heap, shots[j].ref) = shots[j].copy

C35_Witness ==
  /\ Idle
  /\ calls # <<>>
  /\ Committed(1)
  /\ \E j \in DOMAIN shots :
       /\ calls[1].before = shots[j].ref
       /\ calls[1].upd.kind = "fn"
       /\ calls[1].upd.mut
       /\ Deep(heap, state)["items"] # shots[j].copy["items"]
       /\ heap[shots[j].ref].props["items"] = heap[calls[1].before].props["items"]
  /\ \E j \in DOMAIN shots :
       /\ calls[1].before # shots[j].ref
       /\ shots[j].copy # Deep(heap, calls[1].before)

\* C36: while an async action started through createAsyncAction with a given actionName
\* has not settled, isLoading(state, [actionName]) is true, also when several actions of
\* the same actionName overlap and settle in any order.
C36_LoadingWhilePending ==
  \A i \in DOMAIN acts : acts[i].pc = "pending" => IsLoading(astate, acts[i].name)

\* C37: once the promise of an async action has settled and its handlers have run, the
\* state has loading[actionName] = false and errors[actionName] is the rejection error if
\* the action rejected and null if it fulfilled, and the promise returned to the caller
\* has settled the way the action's did.
C37_SettledActionRecorded ==
  \A i \in DOMAIN acts :
    acts[i].pc = "done" =>
      /\ acts[i].left.loading[acts[i].name] = FALSE
      /\ acts[i].left.errors[acts[i].name] = IF acts[i].outcome = "rejected" THEN Err(i) ELSE Null
      /\ acts[i].returned = acts[i].outcome

\* C38: a store configured with the one middleware combineMiddleware(m1, ..., mn) commits
\* for every update the state a store configured with the list [m1, ..., mn] commits:
\* the mi are applied in the same order, each with the same nextState and the same
\* prevState, an undefined result passes the running nextState through, and what one
\* throws the other throws.
C38_CombinedAsList ==
  \A id \in DOMAIN calls :
    calls[id].cand # 0 =>
      LET ms == Combinations[middleware[1]]
          one == Reduce(ms, 1, heap, calls[id].cand, calls[id].prev, <<>>)
          list == ApplyMiddleware(ms, 1, heap, calls[id].cand, calls[id].prev, <<>>)
      IN /\ one.err = list.err
         /\ one.log = list.log
         /\ Deep(one.heap, one.res) = Deep(list.heap, list.res)
         /\ Committed(id) =>
              /\ list.err = "none"
              /\ Deep(heap, calls[id].next) = Deep(list.heap, list.res)
         /\ calls[id].err = "MiddlewareError" => list.err = "MiddlewareError"
         /\ (Idle /\ list.err = "none" /\ calls[id].err = "none") => Committed(id)

C38_Witness ==
  /\ Idle
  /\ thrown = "none"
  /\ calls # <<>>
  /\ Committed(1)
  /\ Len(Combinations[middleware[1]]) >= 2
  /\ "void" \in {Combinations[middleware[1]][j] : j \in DOMAIN Combinations[middleware[1]]}
  /\ Deep(heap, calls[1].next) # Deep(heap, calls[1].cand)
  /\ Deep(heap, calls[1].cand) # Deep(heap, calls[1].before)

\* C39: on a store whose middleware list has createPersistMiddleware, the persist
\* middleware passes nextState through and the value setState commits is the updated
\* state object itself: after setState(partial) the state is the engine's candidate, it
\* has the partial's fields with the partial's values, and listeners are called with it.
C39_PersistPassesThrough ==
  /\ \A n \in DOMAIN mwlog :
       middleware[mwlog[n].i] \in PersistKinds => mwlog[n].out = Ref(mwlog[n].next)
  /\ \A id \in DOMAIN calls :
       (Committed(id) /\ calls[id].upd.kind = "partial") =>
         /\ calls[id].next = calls[id].cand
         /\ \A k \in DOMAIN calls[id].upd.obj :
              /\ k \in DOMAIN heap[calls[id].next].props
              /\ heap[calls[id].next].props[k] = calls[id].upd.obj[k]
         /\ \A n \in DOMAIN notified : notified[n].id = id => notified[n].next = calls[id].cand
====
